---- MODULE Spec2Model ----
(***************************************************************************)
(* Model of the silx multi-peak fit driver (silx/math/specfit.py, class    *)
(* Specfit) and of the estimator library it imports                        *)
(* (silx/math/fit/specfitfunctions.py, class SpecfitFunctions).            *)
(*                                                                         *)
(* Python sequences are 0-based; the model keeps TLA+ sequences (1-based)  *)
(* and reads them through At / At2, which take the Python index.           *)
(* Real values that depend on the sampled data are kept as integer tags    *)
(* saying which value of which producer they are (EstValue, BkgValue,      *)
(* FitValue, SigmaValue).                                                  *)
(***************************************************************************)
EXTENDS Integers, Sequences, FiniteSets, TLC

(***************************************************************************)
(* Bounds of the model                                                     *)
(***************************************************************************)
\* largest number of peaks an estimator call reports
MaxPeaks == 2

\* largest payload (bound / index) a user estimator puts in a constraint row
MaxPayload == 9

\* largest chisq the solver reports
MaxChisq == 3

\* the largest number of samples of the data given to setdata
MaxLen == 3

\* the largest number of peaks the residual search of mcafit adds in one region
MaxRefits == 1

(***************************************************************************)
(* Values                                                                  *)
(***************************************************************************)
\* Python None where a callable or a name is expected
None == "None"

\* Python None where a number is expected (the numbers of the model are >= 0)
NoneNum == -1

\* Python None where an array is expected
NoneSeq == <<NoneNum>>

\* an attribute that no statement has assigned yet (reading it raises
\* AttributeError): where a string, a number, a list is expected
Unset == "Unset"
UnsetNum == -2
UnsetList == <<[unset |-> TRUE]>>

\* value of the `raised` observer when the last call returned normally
NoError == "none"

\* specfit.py:459-466, list CONS of Specfit.estimate
CONS == <<"FREE", "POSITIVE", "QUOTED", "FIXED", "FACTOR", "DELTA", "SUM", "IGNORE">>

\* specfitfunctions.py:187-194
CFREE == 0
CPOSITIVE == 1
CQUOTED == 2
CFIXED == 3
CFACTOR == 4
CDELTA == 5
CSUM == 6
CIGNORED == 7

\* seq[i] with the Python index i
At(seq, i) == seq[i + 1]

\* arr[r][c] with Python indices
At2(arr, r, c) == arr[r + 1][c + 1]

\* range(n) of Python
Range(n) == 0 .. (n - 1)

\* min() / max() of a non-empty sequence of numbers
SeqMin(s) == CHOOSE v \in {s[i] : i \in DOMAIN s} : \A j \in DOMAIN s : v <= s[j]
SeqMax(s) == CHOOSE v \in {s[i] : i \in DOMAIN s} : \A j \in DOMAIN s : v >= s[j]

\* the decimal suffix "%d" % i of a parameter name
Suffix(i) == ToString(i)

(***************************************************************************)
(* State of a Specfit instance, of the SpecfitFunctions singleton          *)
(* `fitfuns`, and what the surroundings of the driver observe              *)
(***************************************************************************)
VARIABLES
    fitconfig,      \* Specfit.fitconfig, the driver configuration store
    theorydict,     \* Specfit.theorydict: name -> list
    bkgdict,        \* Specfit.bkgdict: name -> list
    theoryfun,      \* Specfit.theoryfun
    bkgfun,         \* Specfit.bkgfun
    modelderiv,     \* Specfit.modelderiv
    state,          \* Specfit.state
    chisq,          \* Specfit.chisq
    final_theory,   \* Specfit.final_theory
    paramlist,      \* Specfit.paramlist
    xdata0, ydata0, sigmay0,    \* data as given to setdata
    xdata, ydata, sigmay,       \* working view
    config,         \* SpecfitFunctions.config of the singleton fitfuns
    libCall,        \* the latest call of an estimator of the library since config was set
    emitted,        \* FitStatusChanged payloads handed to eh.event by the latest estimate()/startfit()
    esti_bkg,       \* local esti_bkg of the latest estimate()
    esti_fun,       \* local esti_fun of the latest estimate()
    solverCall,     \* the curve_fit call of the latest startfit() since estimate(): arguments, return
    fitOp,          \* the latest of estimate() and startfit() that was called
    fitRaised,      \* exception that call ended with, or NoError
    raised,         \* exception the latest call of another operation ended with, or NoError
    bkg_internal_old,   \* Specfit.bkg_internal_oldx, _oldy, _oldpars and _oldbkg
    lastCall        \* the latest call, when it is one whose arguments and return value are observed

vars == <<fitconfig, theorydict, bkgdict, theoryfun, bkgfun, modelderiv, state, chisq,
          final_theory, paramlist, xdata0, ydata0, sigmay0, xdata, ydata, sigmay,
          config, libCall, emitted, esti_bkg, esti_fun, solverCall, fitOp, fitRaised, raised,
          bkg_internal_old, lastCall>>

dataVars == <<xdata0, ydata0, sigmay0, xdata, ydata, sigmay>>
registryVars == <<theorydict, bkgdict>>
libVars == <<config, libCall>>
selectionVars == <<fitconfig, theoryfun, bkgfun, modelderiv>>
fitVars == <<state, chisq, final_theory, paramlist, emitted, esti_bkg, esti_fun, solverCall,
            fitOp, fitRaised>>

\* lastCall after a call that is not observed
NoCall == [op |-> "none"]

\* a mapping d extended or overwritten at key k (d[k] = v of Python)
Store(d, k, v) == [x \in (DOMAIN d) \cup {k} |-> IF x = k THEN v ELSE d[x]]

(***************************************************************************)
(* The estimator library: specfitfunctions.py                              *)
(***************************************************************************)
\* SPECFITFUNCTIONS_DEFAULTS (specfitfunctions.py:136-179), the entries the
\* estimators read.  Sensitivity is kept in tenths, the ratios in 1/10000;
\* the thresholds MinGauss* are compared with data and are not kept.
SPECFITFUNCTIONS_DEFAULTS ==
    [NoConstraintsFlag |-> FALSE,
     PositiveFwhmFlag |-> TRUE,
     PositiveHeightAreaFlag |-> TRUE,
     SameFwhmFlag |-> FALSE,
     QuotedPositionFlag |-> FALSE,
     QuotedEtaFlag |-> FALSE,
     Yscaling |-> 1,
     FwhmPoints |-> 8,
     AutoFwhm |-> FALSE,
     Sensitivity |-> 25,
     ForcePeakPresence |-> FALSE,
     HypermetTails |-> 15,
     InitialShortTailAreaRatio |-> 500,
     MaxShortTailAreaRatio |-> 1000,
     MinShortTailAreaRatio |-> 10,
     InitialShortTailSlopeRatio |-> 7000,
     MaxShortTailSlopeRatio |-> 20000,
     MinShortTailSlopeRatio |-> 5000,
     InitialLongTailAreaRatio |-> 500,
     MaxLongTailAreaRatio |-> 3000,
     MinLongTailAreaRatio |-> 100,
     InitialLongTailSlopeRatio |-> 200000,
     MaxLongTailSlopeRatio |-> 500000,
     MinLongTailSlopeRatio |-> 50000,
     InitialStepTailHeightRatio |-> 20,
     MaxStepTailHeightRatio |-> 100,
     MinStepTailHeightRatio |-> 1,
     HypermetQuotedPositionFlag |-> TRUE,
     SameSlopeRatioFlag |-> TRUE,
     SameAreaRatioFlag |-> TRUE]

\* one row of numpy.zeros((N, 3))
ZeroRow == <<0, 0, 0>>

\* min(x) and max(x) of the abscissa handed to an estimator
XMin == 2
XMax == 6

\* the i-th value of the quick fit of estimate_height_position_fwhm (leastsq)
LsqValue(i) == 100 + i

\* the area an estimator computes from a height (and the fwhm of its peak)
AreaOf(height) == 400 + height

\* max(y) - min(y), the height of a step; the estimations of estimate_slit
StepHeight == 90
SlitValue(i) == 95 + i

\* the initial eta of the pseudo-Voigt estimators, 0.5, in 1/10000
EtaInitial == 5000

\* DeltaPositionFwhmUnits * fwhm of estimate_ahypermet
PositionDelta == 1

\* What an estimator sees of its arguments: the number of peaks peak_search
\* finds in y (more than 1.5 * FwhmPoints samples), the index of the highest
\* of them, the index of the peak with the largest fitted height, whether bg
\* is None or an array as long as the data, whether yscaling is None, 0 or 1,
\* and whether the peaks, scaled by 1, exceed the thresholds of the hypermet
\* tails
EstimatorArgs ==
    {[found |-> k, largest |-> l, main |-> m, bg |-> b, yscaling |-> ys, tails |-> t] :
        k \in 0 .. MaxPeaks,
        l \in 0 .. (MaxPeaks - 1), m \in 0 .. (MaxPeaks - 1),
        b \in {None, "array"}, ys \in {NoneNum, 0, 1}, t \in BOOLEAN}

\* the arguments that exist: the highest peak found is the first or the last,
\* the largest fitted one is that one or the last; the calls pass (bg=None),
\* (bg, yscaling) or (bg=None, yscaling); the thresholds of the tails only
\* matter for peaks scaled by a yscaling
ValidEstimatorArgs ==
    {q \in EstimatorArgs :
        LET last == IF q.found = 0 THEN 0 ELSE q.found - 1
        IN /\ q.largest \in {0, last}
           /\ q.main \in {q.largest, last}
           /\ (q.bg = "array" => q.yscaling = 1)
           /\ ((q.found = 0 \/ q.yscaling = NoneNum) => q.tails)}

\* the arguments of the calls that leave yscaling out or pass a scale
ScaledEstimatorArgs == {q \in ValidEstimatorArgs : q.yscaling # 0}

\* the outcome of an estimator: the exception it raises, or what it returns
Raises(e, cfg) == [err |-> e, params |-> <<>>, cons |-> <<>>, config |-> cfg]
Returns(params, cons, cfg) == [err |-> NoError, params |-> params, cons |-> cons, config |-> cfg]

\* SpecfitFunctions.estimate_height_position_fwhm(x, y, bg, yscaling);
\* bgfits: y - bg can be computed (bg is None or as long as y)
estimate_height_position_fwhm(q, bgfits) ==
    LET cfg == [config EXCEPT !.FwhmPoints = IF @ < 3 THEN 3 ELSE @,
                              !.Sensitivity = IF @ < 10 THEN 10 ELSE @]
        forcePeak == config.ForcePeakPresence
        npeaks == IF q.found = 0 /\ forcePeak THEN 1 ELSE q.found
        index_largest_peak == IF q.found > 0 THEN q.largest ELSE 0
        fittedpar == [p \in 1 .. 3 * npeaks |-> LsqValue(p - 1)]
        constrained == ~config.NoConstraintsFlag
        row(peak_index) ==
            LET i == peak_index \div 3
                j == peak_index % 3
            IN IF j = 0
               THEN IF constrained /\ config.PositiveHeightAreaFlag
                    THEN <<CPOSITIVE, 0, 0>> ELSE ZeroRow
               ELSE IF j = 1
               THEN IF constrained /\ config.QuotedPositionFlag
                    THEN <<CQUOTED, XMin, XMax>> ELSE ZeroRow
               ELSE IF constrained /\ config.SameFwhmFlag /\ i # index_largest_peak
                    THEN <<CFACTOR, 3 * index_largest_peak + 2, 1>>
                    ELSE IF constrained /\ config.PositiveFwhmFlag
                         THEN <<CPOSITIVE, 0, 0>> ELSE ZeroRow
    IN IF npeaks > 0 /\ ~bgfits
       THEN Raises("ValueError", cfg)       \* y - bg of arrays of different lengths
       ELSE Returns(fittedpar, [p \in 1 .. 3 * npeaks |-> row(p - 1)], cfg)

\* fittedpar with the heights, at every n-th index, replaced by areas
HeightsToAreas(fittedpar, n) ==
    [p \in DOMAIN fittedpar |->
        IF (p - 1) % n = 0 /\ (p - 1) \div n < Len(fittedpar) \div n
        THEN AreaOf(fittedpar[p]) ELSE fittedpar[p]]

\* SpecfitFunctions.estimate_agauss and estimate_alorentz
estimate_agauss(q, bgfits) ==
    LET r == estimate_height_position_fwhm(q, bgfits)
    IN IF r.err # NoError THEN r
       ELSE [r EXCEPT !.params = HeightsToAreas(r.params, 3)]

estimate_alorentz(q) ==
    LET r == estimate_height_position_fwhm(q, TRUE)
    IN IF r.err # NoError THEN r
       ELSE [r EXCEPT !.params = HeightsToAreas(r.params, 3)]

\* SpecfitFunctions.estimate_splitgauss
estimate_splitgauss(q) ==
    LET r == estimate_height_position_fwhm(q, TRUE)
        fittedpar == r.params
        cons == r.cons
        npeaks == Len(fittedpar) \div 3
        par(p) == LET i == p \div 4
                      j == p % 4
                  IN IF j < 3 THEN At(fittedpar, 3 * i + j) ELSE At(fittedpar, 3 * i + 2)
        row(p) == LET i == p \div 4
                      j == p % 4
                      fwhm == At(cons, 3 * i + 2)
                  IN IF j < 2 THEN At(cons, 3 * i + j)
                     ELSE IF fwhm[1] = 4
                          THEN <<fwhm[1], (fwhm[2] \div 3) * 4 + j, fwhm[3]>>
                          ELSE fwhm
    IN IF r.err # NoError THEN r
       ELSE Returns([p \in 1 .. 4 * npeaks |-> par(p - 1)],
                    [p \in 1 .. 4 * npeaks |-> row(p - 1)], r.config)

\* The loops "find out related parameters proper index" of estimate_pvoigt,
\* estimate_splitpvoigt and estimate_ahypermet: the index j of the peak with
\* the free FWHM, and cons with cons[3 * i + 2, 1] = stride * j + 2 for i # j
FreeFwhmPeak(cons, npeaks) ==
    LET free == {i \in Range(npeaks) : At(cons, 3 * i + 2)[1] # 4}
    IN IF free = {} THEN 0 ELSE CHOOSE i \in free : \A i2 \in free : i2 <= i

RelatedFwhm(cons, npeaks, stride) ==
    IF ~config.NoConstraintsFlag /\ config.SameFwhmFlag
    THEN LET j == FreeFwhmPeak(cons, npeaks)
         IN [p \in DOMAIN cons |->
                IF (p - 1) % 3 = 2 /\ (p - 1) \div 3 # j /\ (p - 1) \div 3 < npeaks
                THEN <<cons[p][1], stride * j + 2, cons[p][3]>>
                ELSE cons[p]]
    ELSE cons

\* the constraint of an eta parameter
EtaRow == IF config.QuotedEtaFlag THEN <<CQUOTED, 0, 1>> ELSE ZeroRow

\* SpecfitFunctions.estimate_pvoigt
estimate_pvoigt(q) ==
    LET r == estimate_height_position_fwhm(q, TRUE)
        fittedpar == r.params
        npeaks == Len(fittedpar) \div 3
        cons == RelatedFwhm(r.cons, npeaks, 4)
        par(p) == LET i == p \div 4
                      j == p % 4
                  IN IF j < 3 THEN At(fittedpar, 3 * i + j) ELSE EtaInitial
        row(p) == LET i == p \div 4
                      j == p % 4
                  IN IF j < 3 THEN At(cons, 3 * i + j) ELSE EtaRow
    IN IF r.err # NoError THEN r
       ELSE Returns([p \in 1 .. 4 * npeaks |-> par(p - 1)],
                    [p \in 1 .. 4 * npeaks |-> row(p - 1)], r.config)

\* SpecfitFunctions.estimate_splitpvoigt
estimate_splitpvoigt(q) ==
    LET r == estimate_height_position_fwhm(q, TRUE)
        fittedpar == r.params
        npeaks == Len(fittedpar) \div 3
        cons == RelatedFwhm(r.cons, npeaks, 4)
        par(p) == LET i == p \div 5
                      j == p % 5
                  IN IF j < 3 THEN At(fittedpar, 3 * i + j)
                     ELSE IF j = 3 THEN At(fittedpar, 3 * i + 2) ELSE EtaInitial
        row(p) == LET i == p \div 5
                      j == p % 5
                      fwhm == At(cons, 3 * i + 2)
                  IN IF j < 3 THEN At(cons, 3 * i + j)
                     ELSE IF j = 3
                     THEN IF fwhm[1] = 4 THEN <<fwhm[1], fwhm[2] + 1, fwhm[3]>> ELSE fwhm
                     ELSE EtaRow
    IN IF r.err # NoError THEN r
       ELSE Returns([p \in 1 .. 5 * npeaks |-> par(p - 1)],
                    [p \in 1 .. 5 * npeaks |-> row(p - 1)], r.config)

\* SpecfitFunctions.estimate_apvoigt
estimate_apvoigt(q) ==
    LET r == estimate_pvoigt(q)
    IN IF r.err # NoError THEN r
       ELSE [r EXCEPT !.params = HeightsToAreas(r.params, 4)]

\* SpecfitFunctions.ahypermet: the term b (gaussian, short tail, long tail,
\* step) it hands to sum_ahypermet, (config['HypermetTails'] >> b) & 1
AhypermetTerm(b) == (config.HypermetTails \div (2 ^ b)) % 2

\* bit b of config['HypermetTails']; every term is on when the flags are 0
HypermetTerm(b) ==
    IF config.HypermetTails # 0 THEN (config.HypermetTails \div (2 ^ b)) % 2 ELSE 1

\* SpecfitFunctions.estimate_ahypermet; main_peak ends as the peak with the
\* largest fitted height
estimate_ahypermet(q) ==
    LET r == estimate_height_position_fwhm(q, TRUE)
        fittedpar == r.params
        npeaks == Len(fittedpar) \div 3
        main_peak == IF npeaks = 0 THEN 0 ELSE IF q.main < npeaks THEN q.main ELSE 0
        g_term == HypermetTerm(0)
        \* area * yscaling and height * yscaling with the yscaling of the call:
        \* 0 is below the thresholds MinGauss*, which are positive
        below == q.yscaling = 0 \/ ~q.tails
        st_off == below \/ HypermetTerm(1) = 0
        lt_off == below \/ HypermetTerm(2) = 0
        step_off == below \/ HypermetTerm(3) = 0
        fixed == <<CFIXED, 0, 0>>
        par(p) ==
            LET i == p \div 8
                j == p % 8
            IN IF j = 0 THEN AreaOf(At(fittedpar, 3 * i))
               ELSE IF j < 3 THEN At(fittedpar, 3 * i + j)
               ELSE IF j = 3 THEN IF st_off THEN 0 ELSE config.InitialShortTailAreaRatio
               ELSE IF j = 4 THEN IF st_off THEN 0 ELSE config.InitialShortTailSlopeRatio
               ELSE IF j = 5 THEN IF lt_off THEN 0 ELSE config.InitialLongTailAreaRatio
               ELSE IF j = 6 THEN IF lt_off THEN 0 ELSE config.InitialLongTailSlopeRatio
               ELSE IF step_off THEN 0 ELSE config.InitialStepTailHeightRatio
        \* newcons as the loop over the peaks leaves it
        looprow(p) ==
            LET j == p % 8
            IN IF j < 3 THEN IF g_term = 0 THEN fixed ELSE ZeroRow
               ELSE IF j = 3
               THEN IF st_off THEN fixed
                    ELSE <<CQUOTED, config.MinShortTailAreaRatio, config.MaxShortTailAreaRatio>>
               ELSE IF j = 4
               THEN IF st_off THEN fixed
                    ELSE <<CQUOTED, config.MinShortTailSlopeRatio, config.MaxShortTailSlopeRatio>>
               ELSE IF j = 5
               THEN IF lt_off THEN fixed
                    ELSE <<CQUOTED, config.MinLongTailAreaRatio, config.MaxLongTailAreaRatio>>
               ELSE IF j = 6
               THEN IF lt_off THEN fixed
                    ELSE <<CQUOTED, config.MinLongTailSlopeRatio, config.MaxLongTailSlopeRatio>>
               ELSE IF step_off THEN fixed
                    ELSE <<CQUOTED, config.MinStepTailHeightRatio, config.MaxStepTailHeightRatio>>
        \* newcons after the statements that follow the loop
        row(p) ==
            LET i == p \div 8
                j == p % 8
                base == looprow(p)
                tied == <<CFACTOR, 8 * main_peak + j, 1>>
            IN IF j = 0
               THEN IF g_term # 0 /\ config.PositiveHeightAreaFlag
                    THEN <<CPOSITIVE, base[2], base[3]>> ELSE base
               ELSE IF j = 1
               THEN IF g_term # 0 /\ config.HypermetQuotedPositionFlag
                    THEN <<CQUOTED, par(p) - PositionDelta, par(p) + PositionDelta>> ELSE base
               ELSE IF j = 2
               THEN IF g_term # 0 /\ config.SameFwhmFlag /\ i # main_peak THEN tied
                    ELSE IF g_term # 0 /\ config.PositiveFwhmFlag
                         THEN <<CPOSITIVE, base[2], base[3]>> ELSE base
               ELSE IF j \in {3, 5}
               THEN IF config.SameAreaRatioFlag /\ i # main_peak THEN tied ELSE base
               ELSE IF j \in {4, 6}
               THEN IF config.SameSlopeRatioFlag /\ i # main_peak THEN tied ELSE base
               ELSE base
    IN IF r.err # NoError THEN r
       ELSE IF npeaks > 0 /\ q.yscaling = NoneNum
       THEN Raises("TypeError", r.config)          \* area * yscaling with yscaling None
       ELSE Returns([p \in 1 .. 8 * npeaks |-> par(p - 1)],
                    [p \in 1 .. 8 * npeaks |-> row(p - 1)], r.config)

\* The end of estimate_downstep and of estimate_upstep: the parameters of the
\* largest peak, and cons of estimate_agauss with its first three rows set
StepResult(q, r) ==
    LET fittedpar == r.params
        cons == r.cons
        npeaks == Len(fittedpar) \div 3
        largest_index == IF q.main < npeaks THEN q.main ELSE 0
        largest == <<StepHeight, At(fittedpar, 3 * largest_index + 1),
                     At(fittedpar, 3 * largest_index + 2)>>
        constrained == ~config.NoConstraintsFlag
        row(p) == IF p = 0 /\ constrained /\ config.PositiveHeightAreaFlag
                  THEN <<CPOSITIVE, 0, 0>>
                  ELSE IF p = 1 /\ constrained /\ config.QuotedPositionFlag
                  THEN <<CQUOTED, XMin, XMax>>
                  ELSE IF p = 2 /\ constrained /\ config.PositiveFwhmFlag
                  THEN <<CPOSITIVE, 0, 0>>
                  ELSE At(cons, p)
    IN IF r.err # NoError THEN r
       ELSE IF Len(fittedpar) = 0
       THEN Raises("IndexError", r.config)         \* fittedpar[0] of an empty list
       ELSE Returns(largest, [p \in 1 .. Len(cons) |-> row(p - 1)], r.config)

\* SpecfitFunctions.estimate_downstep: the derivative yy is four samples
\* shorter than y, and so than an array bg
estimate_downstep(q) == StepResult(q, estimate_agauss(q, q.bg = None))

\* SpecfitFunctions.estimate_upstep: newcons is built and not returned
estimate_upstep(q) == StepResult(q, estimate_agauss(q, q.bg = None))

\* SpecfitFunctions.estimate_slit
estimate_slit(q) ==
    LET up == estimate_upstep(q)
        down == estimate_downstep(q)
        constrained == ~config.NoConstraintsFlag
        positive == <<CPOSITIVE, 0, 0>>
        cons == << IF constrained /\ config.PositiveHeightAreaFlag THEN positive ELSE ZeroRow,
                   IF constrained /\ config.QuotedPositionFlag
                   THEN <<CQUOTED, XMin, XMax>> ELSE ZeroRow,
                   IF constrained /\ config.PositiveFwhmFlag THEN positive ELSE ZeroRow,
                   IF constrained /\ config.PositiveFwhmFlag THEN positive ELSE ZeroRow >>
    IN IF up.err # NoError THEN up
       ELSE IF down.err # NoError THEN down
       ELSE IF q.bg = None
       THEN Raises("TypeError", down.config)       \* yy = y - bg with bg None
       ELSE Returns([p \in 1 .. 4 |-> SlitValue(p - 1)], cons, down.config)

\* the i-th value estimate_periodic_gauss computes from the peaks it finds
PeriodicValue(i) == 80 + i

\* SpecfitFunctions.estimate_periodic_gauss
estimate_periodic_gauss(q) ==
    LET search_fwhm == IF config.FwhmPoints < 3 THEN 3 ELSE config.FwhmPoints
        npeaks == q.found
        constrained == ~config.NoConstraintsFlag
        fittedpar == <<npeaks, IF npeaks > 1 THEN PeriodicValue(1) ELSE 0,
                       PeriodicValue(2), PeriodicValue(3), search_fwhm>>
        cons == << <<CFIXED, 0, 0>>,
                   IF npeaks = 1 THEN <<CFIXED, 0, 0>> ELSE <<CFREE, 0, 0>>,
                   IF constrained /\ config.PositiveHeightAreaFlag
                   THEN <<CPOSITIVE, 0, 0>> ELSE ZeroRow,
                   IF constrained /\ config.QuotedPositionFlag
                   THEN <<CQUOTED, XMin, XMax>> ELSE ZeroRow,
                   IF constrained /\ config.PositiveFwhmFlag
                   THEN <<CPOSITIVE, 0, 0>> ELSE ZeroRow >>
    IN IF npeaks = 0 THEN Returns(<<>>, <<>>, config)
       ELSE Returns(fittedpar, cons, config)

\* specfitfunctions.py:1205-1272, the registry lists of the library
THEORY ==
    <<"Gaussians", "Lorentz", "Area Gaussians", "Area Lorentz", "Pseudo-Voigt Line",
      "Area Pseudo-Voigt", "Split Gaussian", "Split Lorentz", "Split Pseudo-Voigt",
      "Step Down", "Step Up", "Slit", "Atan", "Hypermet", "Periodic Gaussians">>

PARAMETERS ==
    << <<"Height", "Position", "FWHM">>,
       <<"Height", "Position", "Fwhm">>,
       <<"Area", "Position", "Fwhm">>,
       <<"Area", "Position", "Fwhm">>,
       <<"Height", "Position", "Fwhm", "Eta">>,
       <<"Area", "Position", "Fwhm", "Eta">>,
       <<"Height", "Position", "LowFWHM", "HighFWHM">>,
       <<"Height", "Position", "LowFWHM", "HighFWHM">>,
       <<"Height", "Position", "LowFWHM", "HighFWHM", "Eta">>,
       <<"Height", "Position", "FWHM">>,
       <<"Height", "Position", "FWHM">>,
       <<"Height", "Position", "FWHM", "BeamFWHM">>,
       <<"Height", "Position", "Width">>,
       <<"G_Area", "Position", "FWHM", "ST_Area", "ST_Slope", "LT_Area", "LT_Slope", "Step_H">>,
       <<"N", "Delta", "Height", "Position", "FWHM">> >>

ESTIMATE ==
    <<"estimate_height_position_fwhm", "estimate_height_position_fwhm",
      "estimate_agauss", "estimate_alorentz", "estimate_pvoigt", "estimate_apvoigt",
      "estimate_splitgauss", "estimate_splitgauss", "estimate_splitpvoigt",
      "estimate_downstep", "estimate_upstep", "estimate_slit", "estimate_upstep",
      "estimate_ahypermet", "estimate_periodic_gauss">>

\* the call ESTIMATE[t](x, y, bg, yscaling) or ESTIMATE[t](x, y, bg)
CallEstimate(t, q) ==
    LET f == At(ESTIMATE, t)
    IN IF f = "estimate_height_position_fwhm" THEN estimate_height_position_fwhm(q, TRUE)
       ELSE IF f = "estimate_agauss" THEN estimate_agauss(q, TRUE)
       ELSE IF f = "estimate_alorentz" THEN estimate_alorentz(q)
       ELSE IF f = "estimate_pvoigt" THEN estimate_pvoigt(q)
       ELSE IF f = "estimate_apvoigt" THEN estimate_apvoigt(q)
       ELSE IF f = "estimate_splitgauss" THEN estimate_splitgauss(q)
       ELSE IF f = "estimate_splitpvoigt" THEN estimate_splitpvoigt(q)
       ELSE IF f = "estimate_downstep" THEN estimate_downstep(q)
       ELSE IF f = "estimate_upstep" THEN estimate_upstep(q)
       ELSE IF f = "estimate_slit" THEN estimate_slit(q)
       ELSE IF f = "estimate_ahypermet" THEN estimate_ahypermet(q)
       ELSE estimate_periodic_gauss(q)

\* a caller evaluates the estimator registered at index t of ESTIMATE
library_estimate(t, q) ==
    LET r == CallEstimate(t, q)
    IN /\ libCall' = [called |-> TRUE, theory |-> t, args |-> q, err |-> r.err,
                      params |-> r.params, cons |-> r.cons]
       /\ config' = r.config
       /\ lastCall' = NoCall
       /\ UNCHANGED <<registryVars, selectionVars, fitVars, dataVars, bkg_internal_old, raised>>

\* SpecfitFunctions.configure(**kw) of fitfuns, with one keyword, spelled as
\* the key is in config or new
fitfuns_configure(key, value) ==
    /\ config' = Store(config, key, value)
    /\ libCall' = [called |-> FALSE]
    /\ lastCall' = NoCall
    /\ UNCHANGED <<registryVars, selectionVars, fitVars, dataVars, bkg_internal_old, raised>>

(***************************************************************************)
(* Specfit.setdata                                                         *)
(***************************************************************************)
\* numpy.arange(n)
Arange(n) == [i \in 1 .. n |-> i - 1]

\* numpy.ones(shape)
Ones(n) == [i \in 1 .. n |-> 1]

\* a[bool_array]: the elements of a at the positions where keep holds, in order
RECURSIVE Select(_, _)
Select(a, keep) ==
    IF a = <<>> THEN <<>>
    ELSE LET rest == Select(Tail(a), Tail(keep))
         IN IF Head(keep) THEN <<Head(a)>> \o rest ELSE rest

\* variant: a window that would exclude the samples on its bounds
InWindowOpen(v, lo, hi) == v > lo /\ v < hi

\* one element of bool_array: (self.xdata >= xmin) & (self.xdata <= xmax)
InWindow(v, lo, hi) == v >= lo /\ v <= hi

\* SpecfitFuns.subac(yy, curvature, iterations), a function of its arguments;
\* the array is as long as yy
Subac(yy, curvature, iterations) ==
    [of |-> yy, curvature |-> curvature, iterations |-> iterations]

\* numpy.array([])
EmptyBkg == Subac(<<>>, NoneNum, NoneNum)

\* the four attributes as __init__ leaves them.  bkg_internal_oldy is a
\* reference: `alias` tells that it is the array self.ydata is, `value` holds
\* its elements when it is another array
BkgInternalInit ==
    [oldx |-> <<>>, oldy |-> [alias |-> FALSE, value |-> <<>>],
     oldpars |-> <<0, 0>>, oldbkg |-> EmptyBkg]

\* the attributes once setdata has bound self.ydata to a new array: the array
\* bkg_internal_oldy refers to keeps its elements
BkgInternalDetached(old) ==
    IF old.oldy.alias
    THEN [old EXCEPT !.oldy = [alias |-> FALSE, value |-> ydata]]
    ELSE old

\* the six buffers after setdata(x, y, sigmay, xmin, xmax), and the exception
\* that ends the call: indexing an array with a boolean array of another
\* length raises IndexError, after the assignments made before it
SetDataResult(x, y, sig, xmin, xmax) ==
    IF y = NoneSeq
    THEN [err |-> NoError, xdata0 |-> <<>>, ydata0 |-> <<>>, sigmay0 |-> <<>>,
          xdata |-> <<>>, ydata |-> <<>>, sigmay |-> <<>>]
    ELSE LET x0 == IF x = NoneSeq THEN Arange(Len(y)) ELSE x
             s0 == IF sig = NoneSeq THEN Ones(Len(y)) ELSE sig
             windowed == (xmin # NoneNum \/ xmax # NoneNum) /\ Len(x0) > 0
             lo == IF xmin # NoneNum THEN xmin ELSE SeqMin(x0)
             hi == IF xmax # NoneNum THEN xmax ELSE SeqMax(x0)
             bool_array == [i \in DOMAIN x0 |-> InWindow(x0[i], lo, hi)]
             yfits == Len(y) = Len(x0)
             sfits == Len(s0) = Len(x0)
         IN [err |-> IF windowed /\ ~(yfits /\ sfits) THEN "IndexError" ELSE NoError,
             xdata0 |-> x0, ydata0 |-> y, sigmay0 |-> s0,
             xdata |-> IF windowed THEN Select(x0, bool_array) ELSE x0,
             ydata |-> IF windowed /\ yfits THEN Select(y, bool_array) ELSE y,
             sigmay |-> IF windowed /\ yfits /\ sfits THEN Select(s0, bool_array) ELSE s0]

setdata(x, y, sig, xmin, xmax) ==
    LET r == SetDataResult(x, y, sig, xmin, xmax)
    IN /\ xdata0' = r.xdata0
       /\ ydata0' = r.ydata0
       /\ sigmay0' = r.sigmay0
       /\ xdata' = r.xdata
       /\ ydata' = r.ydata
       /\ sigmay' = r.sigmay
       /\ bkg_internal_old' = BkgInternalDetached(bkg_internal_old)
       /\ raised' = r.err
       /\ lastCall' = [op |-> "setdata", x |-> x, y |-> y, sigmay |-> sig,
                       xmin |-> xmin, xmax |-> xmax]
       /\ UNCHANGED <<registryVars, selectionVars, fitVars, libVars>>

(***************************************************************************)
(* Specfit.bkg_internal and its memory of the latest computation           *)
(***************************************************************************)
\* numpy.take(yy, numpy.arange(0, nry, 2))
EveryOther(yy) == [i \in 1 .. ((Len(yy) + 1) \div 2) |-> yy[2 * i - 1]]

\* the background bkg_internal(pars, x) computes from self.xdata and
\* self.ydata when it does not use its memory (specfit.py:839-850)
BkgInternalFresh(pars, x) ==
    LET yy == Select(ydata, [i \in DOMAIN ydata |->
                                xdata[i] >= x[1] /\ xdata[i] <= x[Len(x)]])
    IN Subac(IF Len(x) = Len(yy) THEN yy ELSE EveryOther(yy), pars[1], pars[2])

\* oldbkg + pars[2] * numpy.ones(numpy.shape(x)) can be computed: the shapes
\* are equal or one of them is (1,)
Broadcasts(bkg, x) == Len(bkg.of) = Len(x) \/ Len(bkg.of) = 1 \/ Len(x) = 1

\* Specfit.bkg_internal(pars, x) on the attributes `old`: the exception it
\* ends with, the attributes it leaves, whether it used its memory, and the
\* array it returns, as the background and the constant added to it
BkgInternalRun(old, pars, x) ==
    LET oldy == IF old.oldy.alias THEN ydata ELSE old.oldy.value
        out(e, attrs, hit, bkg) ==
            [err |-> e, old |-> attrs, hit |-> hit,
             ret |-> IF e = NoError THEN [bkg |-> bkg, constant |-> pars[3]]
                     ELSE [bkg |-> EmptyBkg, constant |-> NoneNum]]
        stored == [old EXCEPT !.oldy = [alias |-> TRUE, value |-> <<>>],
                              !.oldx = x, !.oldpars = pars]
    IN IF Len(pars) < 2 THEN out("IndexError", old, FALSE, EmptyBkg)
       ELSE IF /\ old.oldpars[1] = pars[1]
               /\ old.oldpars[2] = pars[2]
               /\ Len(x) = Len(old.oldx)
               /\ Len(ydata) = Len(oldy)
               /\ old.oldx = x
               /\ oldy = ydata
       THEN IF Len(pars) < 3 THEN out("IndexError", old, TRUE, EmptyBkg)
            ELSE IF ~Broadcasts(old.oldbkg, x) THEN out("ValueError", old, TRUE, EmptyBkg)
            ELSE out(NoError, old, TRUE, old.oldbkg)
       ELSE IF Len(x) = 0 THEN out("IndexError", stored, FALSE, EmptyBkg)
       ELSE IF Len(xdata) # Len(ydata) THEN out("IndexError", stored, FALSE, EmptyBkg)
       ELSE LET fresh == BkgInternalFresh(pars, x)
                computed == [stored EXCEPT !.oldbkg = fresh]
            IN IF Len(pars) < 3 THEN out("IndexError", computed, FALSE, EmptyBkg)
               ELSE IF ~Broadcasts(fresh, x) THEN out("ValueError", computed, FALSE, EmptyBkg)
               ELSE out(NoError, computed, FALSE, fresh)

\* a caller evaluates Specfit.bkg_internal(pars, x)
bkg_internal(pars, x) ==
    \E r \in {BkgInternalRun(bkg_internal_old, pars, x)} :
       /\ bkg_internal_old' = r.old
       /\ raised' = r.err
       /\ lastCall' = [op |-> "bkg_internal", pars |-> pars, x |-> x,
                       hit |-> r.hit, ret |-> r.ret]
       /\ UNCHANGED <<registryVars, selectionVars, fitVars, dataVars, libVars>>

(***************************************************************************)
(* Specfit.fitfunction                                                     *)
(***************************************************************************)
\* int(a / b) of Python for b > 0: the quotient truncated towards zero
IntQuotient(a, b) == IF a >= 0 THEN a \div b ELSE -((-a) \div b)

\* Specfit.fitfunction(pars, x) for npars parameters: the exception it ends
\* with, or NoError when it returns the values of the model
FitFunction(npars) ==
    IF fitconfig.fitbkg \notin DOMAIN bkgdict THEN "KeyError"
    ELSE IF fitconfig.fittheory \notin DOMAIN theorydict THEN "KeyError"
    ELSE LET nb_bg_pars == Len(At(bkgdict[fitconfig.fitbkg], 1))
             nb_peak_pars == Len(At(theorydict[fitconfig.fittheory], 1))
         IN IF nb_peak_pars = 0 THEN "ZeroDivisionError"
            ELSE LET nb_peaks == IntQuotient(npars - nb_bg_pars, nb_peak_pars)
                 IN IF nb_peaks > 0 /\ theoryfun = Unset THEN "AttributeError"
                    ELSE IF nb_bg_pars > 0 /\ bkgfun = Unset THEN "AttributeError"
                    ELSE IF nb_bg_pars > 0 /\ npars < nb_bg_pars THEN "IndexError"
                    ELSE IF fitconfig.fitbkg = "Square Filter" /\ npars < 2 THEN "IndexError"
                    ELSE NoError

\* the call of bkgfun that Specfit.fitfunction(pars, x) makes when bkgfun is
\* bkg_internal: it follows the calls of theoryfun
ModelBkg(pars, x) ==
    IF bkgfun = "bkg_internal" /\ FitFunction(Len(pars)) \in {NoError, "IndexError"}
    THEN LET nb_bg_pars == Len(At(bkgdict[fitconfig.fitbkg], 1))
         IN IF nb_bg_pars > 0
            THEN BkgInternalRun(bkg_internal_old,
                                SubSeq(pars, 1, IF nb_bg_pars < Len(pars) THEN nb_bg_pars
                                                ELSE Len(pars)), x)
            ELSE [err |-> NoError, old |-> bkg_internal_old]
    ELSE [err |-> NoError, old |-> bkg_internal_old]

(***************************************************************************)
(* Registry and selection                                                  *)
(***************************************************************************)
\* Specfit.addtheory: the stored list has five elements
addtheory(theory, function, parameters, estimate, configure, derivative) ==
    /\ theorydict' = Store(theorydict, theory,
                           <<function, parameters, estimate, configure, derivative>>)
    /\ raised' = NoError
    /\ lastCall' = NoCall
    /\ UNCHANGED <<bkgdict, selectionVars, fitVars, dataVars, bkg_internal_old, libVars>>

\* Specfit.addbackground
addbackground(background, function, parameters, estimate) ==
    /\ bkgdict' = Store(bkgdict, background, <<function, parameters, estimate>>)
    /\ raised' = NoError
    /\ lastCall' = NoCall
    /\ UNCHANGED <<theorydict, selectionVars, fitVars, dataVars, bkg_internal_old, libVars>>

\* the value settheory gives modelderiv for a registry entry
SetTheoryDeriv(entry) ==
    IF Len(entry) > 5
    THEN IF At(entry, 5) # None THEN "myderiv" ELSE None
    ELSE None

\* Specfit.settheory
settheory(theory) ==
    /\ IF theory \in DOMAIN theorydict
       THEN /\ fitconfig' = [fitconfig EXCEPT !.fittheory = theory]
            /\ theoryfun' = At(theorydict[theory], 0)
            /\ modelderiv' = SetTheoryDeriv(theorydict[theory])
            /\ raised' = NoError
            /\ UNCHANGED bkgfun
       ELSE /\ raised' = "KeyError"
            /\ UNCHANGED selectionVars
    /\ lastCall' = NoCall
    /\ UNCHANGED <<registryVars, fitVars, dataVars, bkg_internal_old, libVars>>

\* Specfit.setbackground
setbackground(theory) ==
    /\ IF theory \in DOMAIN bkgdict
       THEN /\ fitconfig' = [fitconfig EXCEPT !.fitbkg = theory]
            /\ bkgfun' = At(bkgdict[theory], 0)
            /\ raised' = NoError
            /\ UNCHANGED <<theoryfun, modelderiv>>
       ELSE /\ raised' = "KeyError"
            /\ UNCHANGED selectionVars
    /\ lastCall' = NoCall
    /\ UNCHANGED <<registryVars, fitVars, dataVars, bkg_internal_old, libVars>>

(***************************************************************************)
(* What estimators hand to the driver                                      *)
(***************************************************************************)
\* the i-th value (Python index) of the list a peak estimator returns
EstValue(i) == 100 + i

\* the i-th value of the list a background estimator computes from the data
BkgValue(i) == 50 + i

\* one constraint (code, c1, c2) of a parameter
FreeRow == <<CFREE, 0, 0>>

\* the constraints a user estimator gives one parameter of a list of N: a
\* bounded one, an ignored one, one tied to the last parameter of the list
UserRows(N) ==
    {<<CIGNORED, 0, 0>>, <<CQUOTED, 1, MaxPayload>>}
    \cup {<<code, N - 1, 1>> : code \in {CFACTOR, CDELTA, CSUM}}

\* the per-parameter constraints a user estimator returns for N parameters:
\* all FREE, or, when it constrains, all FREE but the first or the last
UserConstraints(N, constraining) ==
    {[p \in 1 .. N |-> FreeRow]}
    \cup IF constraining
         THEN {[p \in 1 .. N |-> IF p = q THEN r ELSE FreeRow] :
                  q \in {1, N} \cap (1 .. N), r \in UserRows(N)}
         ELSE {}

\* numpy array of shape (N, 3): one row per parameter, as the ESTIMATE format
\* of specfitfunctions documents it
RowsLayout(c) == c

\* array of shape (3, N): the codes, the c1 and the c2, as estimate_builtin_bkg builds it
ColsLayout(c) == << [p \in DOMAIN c |-> c[p][1]],
                   [p \in DOMAIN c |-> c[p][2]],
                   [p \in DOMAIN c |-> c[p][3]] >>

\* the possible outcomes of calling estimator `est` of a theory with n
\* parameters per peak the way estimate_fun calls it (keywords xscaling, yscaling)
EstimatorOutcomes(est, n, constraining) ==
    IF est \in {ESTIMATE[t] : t \in DOMAIN ESTIMATE}
    THEN \* the estimators of SpecfitFunctions take (x, y, bg, yscaling): no xscaling
         {[err |-> "TypeError", params |-> <<>>, cons |-> <<>>]}
    ELSE UNION {{[err |-> NoError,
                  params |-> [i \in 1 .. n * k |-> EstValue(i - 1)],
                  cons |-> IF est = "user_estimate_rows" THEN RowsLayout(c) ELSE ColsLayout(c)]
                 : c \in UserConstraints(n * k, constraining)} : k \in 0 .. MaxPeaks}

(***************************************************************************)
(* Specfit.estimate                                                        *)
(***************************************************************************)
\* sum of the elements of a sequence of numbers
RECURSIVE SeqSum(_)
SeqSum(s) == IF s = <<>> THEN 0 ELSE Head(s) + SeqSum(Tail(s))

\* numpy.zeros((3, n)) with the codes of row 0 set to `code`
BkgCons(n, code) == << [i \in 1 .. n |-> code], [i \in 1 .. n |-> 0], [i \in 1 .. n |-> 0] >>

\* Specfit.estimate_builtin_bkg(x, y): (fittedpar, cons, zz), zz an array as long as y
estimate_builtin_bkg(x, y) ==
    LET npoints == Len(y)
        fitbkg == fitconfig.fitbkg
    IN IF fitbkg = "Constant"
       THEN IF npoints = 0
            THEN [err |-> "ValueError"]      \* min(zz) of an empty array
            ELSE [err |-> NoError, value |-> << <<BkgValue(0)>>, BkgCons(1, CFREE), "zz" >>]
       ELSE IF fitbkg = "Internal"
       THEN [err |-> NoError, value |-> << <<1, 10000, 0>>, BkgCons(3, CFIXED), "zz" >>]
       ELSE IF fitbkg = "No Background"
       THEN [err |-> NoError, value |-> << <<>>, BkgCons(0, CFREE), "zz" >>]
       ELSE IF fitbkg = "Square Filter"
       THEN LET fwhm == fitconfig.FwhmPoints
                fittedpar == IF fwhm % 2 # 0 THEN <<fwhm, 0>> ELSE <<fwhm + 1, 0>>
            IN [err |-> NoError, value |-> << fittedpar, BkgCons(2, CFIXED), "zz" >>]
       ELSE LET S == npoints
                Sx == SeqSum(x)
                Sxx == SeqSum([i \in DOMAIN x |-> x[i] * x[i]])
                deno == S * Sxx - (Sx * Sx)
                fittedpar == IF deno # 0 THEN <<BkgValue(0), BkgValue(1)>> ELSE <<0, 0>>
            IN [err |-> NoError, value |-> << fittedpar, BkgCons(2, CFREE), "zz" >>]

\* Specfit.estimate_bkg(x, y)
estimate_bkg(x, y) ==
    LET background_estimate_function == At(bkgdict[fitconfig.fitbkg], 2)
    IN IF background_estimate_function # None
       THEN estimate_builtin_bkg(x, y)
       ELSE [err |-> NoError, value |-> << <<>>, << <<>>, <<>>, <<>> >> >>]

\* Specfit.estimate_fun(x, y, z, xscaling, yscaling) when the estimator's call ends as `o`
estimate_fun(o) ==
    LET fittheory == fitconfig.fittheory
    IN IF fittheory \notin DOMAIN theorydict
       THEN [err |-> "KeyError"]
       ELSE IF At(theorydict[fittheory], 2) # None
       THEN IF o.err # NoError
            THEN [err |-> o.err]
            ELSE [err |-> NoError, value |-> <<o.params, o.cons>>]
       ELSE [err |-> NoError, value |-> << <<>>, << <<>>, <<>>, <<>> >> >>]

\* arr[r][c] can be read (no IndexError)
Readable2(arr, r, c) == r + 1 <= Len(arr) /\ c + 1 <= Len(arr[r + 1])

\* CONS[int(v)] can be read; a negative index counts from the end of the list
CodeReadable(v) == v >= -Len(CONS) /\ v < Len(CONS)
CodeName(v) == IF v >= 0 THEN At(CONS, v) ELSE At(CONS, Len(CONS) + v)

\* The names estimate() puts in final_theory: the background names, then the
\* theory's names once per round of the while loop, suffixed by the peak index
FinalTheory(bg_names, fun_names, nparams) ==
    LET n == Len(fun_names)
        rounds == IF nparams = 0 THEN 0 ELSE ((nparams - 1) \div n) + 1
    IN bg_names \o [q \in 1 .. n * rounds |->
                        fun_names[((q - 1) % n) + 1] \o Suffix(((q - 1) \div n) + 1)]

\* cons1 as stored for a peak parameter (specfit.py:539-544)
RebasedCons1(constraint_code, cons1, nb_bg_params) ==
    IF constraint_code \in {"FACTOR", "DELTA", "SUM"} THEN cons1 + nb_bg_params ELSE cons1

\* The three subscripts of the constraint block that the loop of estimate()
\* reads for the parameter at position i of its block: (row, column) of the
\* code, of cons1 and of cons2
ConsSubscripts(i) == << <<0, i>>, <<1, i>>, <<2, i>> >>

\* the body of the loop of estimate() for index pindex can run without IndexError
EntryReadable(pindex, bkg_params, bkg_cons, fun_params, fun_cons) ==
    LET nb_bg_params == Len(bkg_params)
        i == IF pindex < nb_bg_params THEN pindex ELSE pindex - nb_bg_params
        params == IF pindex < nb_bg_params THEN bkg_params ELSE fun_params
        cons == IF pindex < nb_bg_params THEN bkg_cons ELSE fun_cons
        sub == ConsSubscripts(i)
    IN /\ i < Len(params)
       /\ Readable2(cons, sub[1][1], sub[1][2])
       /\ CodeReadable(At2(cons, sub[1][1], sub[1][2]))
       /\ Readable2(cons, sub[2][1], sub[2][2])
       /\ Readable2(cons, sub[3][1], sub[3][2])

\* the dictionary the loop of estimate() appends for index pindex
TableEntry(pindex, names, n, bkg_params, bkg_cons, fun_params, fun_cons, xwork) ==
    LET nb_bg_params == Len(bkg_params)
        isbg == pindex < nb_bg_params
        i == IF isbg THEN pindex ELSE pindex - nb_bg_params
        cons == IF isbg THEN bkg_cons ELSE fun_cons
        sub == ConsSubscripts(i)
        constraint_code == CodeName(At2(cons, sub[1][1], sub[1][2]))
        cons1 == At2(cons, sub[2][1], sub[2][2])
    IN [name |-> At(names, pindex),
        estimation |-> IF isbg THEN At(bkg_params, i) ELSE At(fun_params, i),
        group |-> IF isbg THEN 0 ELSE (i \div n) + 1,
        code |-> constraint_code,
        cons1 |-> IF isbg THEN cons1 ELSE RebasedCons1(constraint_code, cons1, nb_bg_params),
        cons2 |-> At2(cons, sub[3][1], sub[3][2]),
        fitresult |-> 0,
        sigma |-> 0,
        xmin |-> SeqMin(xwork),
        xmax |-> SeqMax(xwork)]

\* The loop of estimate() over final_theory (specfit.py:522-556): the list it
\* has built when it ends, and the error it ends with.  It stops at the first
\* index whose body raises.
BuildTable(names, n, bkg_params, bkg_cons, fun_params, fun_cons, xwork) ==
    LET ok(pindex) == EntryReadable(pindex, bkg_params, bkg_cons, fun_params, fun_cons)
        bad == {pindex \in Range(Len(names)) : ~ok(pindex)}
        stop == IF bad = {} THEN Len(names)
                ELSE CHOOSE pindex \in bad : \A q \in bad : pindex <= q
    IN [err |-> IF bad = {} THEN NoError ELSE "IndexError",
        table |-> [q \in 1 .. stop |->
                      TableEntry(q - 1, names, n, bkg_params, bkg_cons,
                                 fun_params, fun_cons, xwork)]]

\* variant: an event that would not carry the chisq of the driver
PayloadWithoutChisq(c, st) == [chisq |-> NoneNum, status |-> st]

\* the payload of a FitStatusChanged event: data={'chisq': ..., 'status': ...}
Payload(c, st) == [chisq |-> c, status |-> st]

\* chisq as estimate() leaves it at its entry (specfit.py:454) and at its end (specfit.py:559)
EstimateChisq(old) == NoneNum

\* Specfit.guess_yscaling(y) raises on an empty array (numpy.convolve)
YscalingError == fitconfig.AutoScaling /\ Len(ydata) = 0

\* Specfit.estimate() when the call of the theory's estimator ends as `o`:
\* the attributes and the observations when the call returns or raises
EstimateRun(o) ==
    LET entry_state == "Estimate in progress"
        entry_chisq == EstimateChisq(chisq)
        first == Payload(entry_chisq, entry_state)
        \* the attributes when an exception leaves the call before the table is rebuilt
        early(e, eb, ef) ==
            [raised |-> e, state |-> entry_state, chisq |-> entry_chisq,
             emitted |-> <<first>>, final_theory |-> final_theory,
             paramlist |-> paramlist, esti_bkg |-> eb, esti_fun |-> ef]
        notreached == [reached |-> FALSE]
        eb == estimate_bkg(xdata, ydata)
        ef == estimate_fun(o)
    IN IF eb.err # NoError THEN early(eb.err, notreached, notreached)
       ELSE LET ebv == [reached |-> TRUE, value |-> eb.value]
            IN IF YscalingError THEN early("ValueError", ebv, notreached)
               ELSE IF ef.err # NoError THEN early(ef.err, ebv, notreached)
               ELSE LET efv == [reached |-> TRUE, value |-> ef.value]
                        fitbkg == fitconfig.fitbkg
                        fittheory == fitconfig.fittheory
                        fun_names == At(theorydict[fittheory], 1)
                        names == FinalTheory(At(bkgdict[fitbkg], 1), fun_names,
                                             Len(ef.value[1]))
                    IN IF Len(xdata) = 0
                       THEN \* min(xwork) of an empty array, after paramlist = []
                            [early("ValueError", ebv, efv) EXCEPT
                                !.final_theory = names, !.paramlist = <<>>]
                       ELSE LET built == BuildTable(names, Len(fun_names),
                                                    eb.value[1], eb.value[2],
                                                    ef.value[1], ef.value[2], xdata)
                            IN IF built.err # NoError
                               THEN [early(built.err, ebv, efv) EXCEPT
                                        !.final_theory = names, !.paramlist = built.table]
                               ELSE [raised |-> NoError,
                                     state |-> "Ready to Fit",
                                     chisq |-> EstimateChisq(entry_chisq),
                                     emitted |-> <<first,
                                                   Payload(EstimateChisq(entry_chisq),
                                                           "Ready to Fit")>>,
                                     final_theory |-> names,
                                     paramlist |-> built.table,
                                     esti_bkg |-> ebv,
                                     esti_fun |-> efv]

\* the estimator of the selected theory, and the number of names of its template
SelectedEstimator ==
    IF fitconfig.fittheory \in DOMAIN theorydict
    THEN At(theorydict[fitconfig.fittheory], 2) ELSE None
SelectedNbParams ==
    IF fitconfig.fittheory \in DOMAIN theorydict
    THEN Len(At(theorydict[fitconfig.fittheory], 1)) ELSE 0

\* Specfit.estimate(), with user estimators that constrain parameters or not
estimate(constraining) ==
    \E o \in EstimatorOutcomes(SelectedEstimator, SelectedNbParams, constraining) :
        LET r == EstimateRun(o)
        IN /\ state' = r.state
           /\ chisq' = r.chisq
           /\ emitted' = r.emitted
           /\ final_theory' = r.final_theory
           /\ paramlist' = r.paramlist
           /\ esti_bkg' = r.esti_bkg
           /\ esti_fun' = r.esti_fun
           /\ fitRaised' = r.raised
           /\ fitOp' = "estimate"
           /\ solverCall' = [called |-> FALSE]
           /\ lastCall' = [op |-> "estimate"]
           /\ UNCHANGED <<registryVars, selectionVars, dataVars, bkg_internal_old, libVars, raised>>

(***************************************************************************)
(* Specfit.startfit                                                        *)
(***************************************************************************)
\* the i-th fitted value and the i-th uncertainty the solver returns
FitValue(i) == 200 + i
SigmaValue(i) == 300 + i

\* constraints=None of curve_fit
NoneCons == <<>>

\* param_constrains of startfit(): the codes, the cons1 and the cons2 of the table
ParamConstrains(plist) ==
    << [i \in DOMAIN plist |-> plist[i].code],
       [i \in DOMAIN plist |-> plist[i].cons1],
       [i \in DOMAIN plist |-> plist[i].cons2] >>

\* constrains of startfit() (specfit.py:737-738), for a non-empty table: `param`
\* is the variable the loop of specfit.py:725 has left behind
SolverConstraints(plist) ==
    LET param == plist[Len(plist)]
    IN IF param.code = "FREE" THEN NoneCons ELSE ParamConstrains(plist)

\* variant: a write-back that would not skip the IGNOREd parameters
WriteBackAll(plist, found) ==
    [i \in DOMAIN plist |->
        [plist[i] EXCEPT !.fitresult = At(found[1], i - 1),
                         !.sigma = At(found[3], i - 1)]]

\* the table after the write-back loop of startfit() (specfit.py:746-749)
WriteBack(plist, found) ==
    [i \in DOMAIN plist |->
        IF plist[i].code # "IGNORE"
        THEN [plist[i] EXCEPT !.fitresult = At(found[1], i - 1),
                              !.sigma = At(found[3], i - 1)]
        ELSE plist[i]]

\* variant: startfit() that would keep the previous chisq at its entry
StartfitEntryChisqKept(old) == old

\* chisq as startfit() leaves it at its entry (specfit.py:716)
StartfitEntryChisq(old) == NoneNum

\* what the solver returns for N parameters when it reports chisq c: (p_fit, chisq, sigma_p)
Found(N, c) == << [i \in 1 .. N |-> FitValue(i - 1)], c, [i \in 1 .. N |-> SigmaValue(i - 1)] >>

\* the outcomes of the external solver curve_fit: it raises, or reports a chisq
SolverOutcomes == {[ok |-> FALSE, chisq |-> NoneNum]}
                  \cup {[ok |-> TRUE, chisq |-> c] : c \in {1, MaxChisq}}

\* Specfit.startfit() when the solver ends as `so`
StartfitRun(so) ==
    LET entry_state == "Fit in progress"
        entry_chisq == StartfitEntryChisq(chisq)
        first == Payload(entry_chisq, entry_state)
        nocall == [called |-> FALSE]
        failed(e, call) ==
            [raised |-> e, state |-> entry_state, chisq |-> entry_chisq,
             emitted |-> <<first>>, paramlist |-> paramlist, solverCall |-> call]
    IN IF paramlist = UnsetList THEN failed("AttributeError", nocall)
       ELSE IF fitconfig.fitbkg = "Square Filter" /\ paramlist = <<>>
       THEN failed("IndexError", nocall)
       ELSE IF paramlist = <<>> THEN failed("UnboundLocalError", nocall)
       ELSE IF modelderiv = Unset THEN failed("AttributeError", nocall)
       ELSE LET call == [called |-> TRUE,
                         model |-> "fitfunction",
                         p0 |-> [i \in DOMAIN paramlist |-> paramlist[i].estimation],
                         constraints |-> SolverConstraints(paramlist),
                         model_deriv |-> modelderiv,
                         found |-> <<>>]
            IN IF ~so.ok THEN failed("SolverError", call)
               ELSE LET found == Found(Len(paramlist), so.chisq)
                    IN [raised |-> NoError,
                        state |-> "Ready",
                        chisq |-> found[2],
                        emitted |-> <<first, Payload(found[2], "Ready")>>,
                        paramlist |-> WriteBack(paramlist, found),
                        solverCall |-> [call EXCEPT !.found = found]]

\* the attributes of bkg_internal after the solver has evaluated the model
\* self.fitfunction on self.xdata: at p0 when it starts, and last at the
\* parameters it returns
SolverBkg(call) ==
    IF ~call.called THEN bkg_internal_old
    ELSE IF call.found = <<>> THEN ModelBkg(call.p0, xdata).old
    ELSE ModelBkg(call.found[1], xdata).old

\* Specfit.startfit()
startfit ==
    \E so \in SolverOutcomes :
        LET r == StartfitRun(so)
        IN /\ state' = r.state
           /\ chisq' = r.chisq
           /\ emitted' = r.emitted
           /\ paramlist' = r.paramlist
           /\ solverCall' = r.solverCall
           /\ fitRaised' = r.raised
           /\ fitOp' = "startfit"
           /\ lastCall' = [op |-> "startfit"]
           /\ bkg_internal_old' = SolverBkg(r.solverCall)
           /\ UNCHANGED <<registryVars, selectionVars, dataVars, libVars,
                          final_theory, esti_bkg, esti_fun, raised>>

\* Specfit.myderiv(param0, index, t0): the derivative it evaluates and the
\* index it evaluates it with
myderiv(index) ==
    LET nb == Len(At(bkgdict[fitconfig.fitbkg], 1))
        entry == theorydict[fitconfig.fittheory]
    IN IF index >= nb
       THEN IF Len(entry) > 5
            THEN IF At(entry, 5) # None
                 THEN <<At(entry, 5), index - nb>>
                 ELSE <<"num_deriv", index>>
            ELSE <<"num_deriv", index>>
       ELSE <<"num_deriv", index>>

(***************************************************************************)
(* Specfit.importfun                                                       *)
(***************************************************************************)
\* an attribute a module defines, and one it does not define (hasattr is false)
Attr(v) == [has |-> TRUE, val |-> v]
NoAttr == [has |-> FALSE]

\* the addtheory calls importfun(file) makes for the module m it imports, in
\* order, when THEORY is a list, and the error that ends it
ImportCalls(m) ==
    LET theory == m.THEORY.val
        subscriptable(a) == a.has      \* a[i] of None raises TypeError
        ok == subscriptable(m.ESTIMATE) /\ subscriptable(m.CONFIGURE)
    IN IF Len(theory) = 0 THEN [err |-> NoError, calls |-> <<>>]
       ELSE IF ~ok THEN [err |-> "TypeError", calls |-> <<>>]
       ELSE [err |-> NoError,
             calls |-> [i \in 1 .. Len(theory) |->
                          <<theory[i], m.FUNCTION.val[i], m.PARAMETERS.val[i],
                            m.ESTIMATE.val[i], m.CONFIGURE.val[i],
                            IF m.DERIVATIVE.has THEN m.DERIVATIVE.val[i] ELSE None>>]]

\* theorydict after the addtheory calls of a list, in order
RECURSIVE Register(_, _)
Register(d, calls) ==
    IF calls = <<>> THEN d
    ELSE LET c == Head(calls)
         IN Register(Store(d, c[1], <<c[2], c[3], c[4], c[5], c[6]>>), Tail(calls))

\* the number of times importfun(file) calls INIT of the module m it imports
InitCalls(m) == IF m.INIT.has THEN 1 ELSE 0

\* Specfit.importfun(file) for a module whose THEORY is a list
importfun(m) ==
    LET r == ImportCalls(m)
    IN /\ theorydict' = Register(theorydict, r.calls)
       /\ raised' = r.err
       /\ lastCall' = [op |-> "importfun", module |-> m, init_calls |-> InitCalls(m),
                       before |-> theorydict]
       /\ UNCHANGED <<bkgdict, selectionVars, fitVars, dataVars, bkg_internal_old, libVars>>

(***************************************************************************)
(* Specfit.configure                                                       *)
(***************************************************************************)
\* the keys of fitconfig in the order __init__ inserts them, which is the
\* order the loops of configure() visit them in
FITCONFIG_KEYS ==
    <<"AutoFwhm", "FwhmPoints", "AutoScaling", "Yscaling", "Sensitivity",
      "ResidualsFlag", "McaMode", "fitbkg", "fittheory">>

\* str.lower() of the keys of fitconfig and of fitfuns.config
LowerCase ==
    [AutoFwhm |-> "autofwhm", FwhmPoints |-> "fwhmpoints", AutoScaling |-> "autoscaling",
     Yscaling |-> "yscaling", Sensitivity |-> "sensitivity",
     ResidualsFlag |-> "residualsflag", McaMode |-> "mcamode",
     NoConstraintsFlag |-> "noconstraintsflag", PositiveFwhmFlag |-> "positivefwhmflag",
     PositiveHeightAreaFlag |-> "positiveheightareaflag", SameFwhmFlag |-> "samefwhmflag",
     QuotedPositionFlag |-> "quotedpositionflag", QuotedEtaFlag |-> "quotedetaflag",
     ForcePeakPresence |-> "forcepeakpresence", HypermetTails |-> "hypermettails",
     InitialShortTailAreaRatio |-> "initialshorttailarearatio",
     MaxShortTailAreaRatio |-> "maxshorttailarearatio",
     MinShortTailAreaRatio |-> "minshorttailarearatio",
     InitialShortTailSlopeRatio |-> "initialshorttailsloperatio",
     MaxShortTailSlopeRatio |-> "maxshorttailsloperatio",
     MinShortTailSlopeRatio |-> "minshorttailsloperatio",
     InitialLongTailAreaRatio |-> "initiallongtailarearatio",
     MaxLongTailAreaRatio |-> "maxlongtailarearatio",
     MinLongTailAreaRatio |-> "minlongtailarearatio",
     InitialLongTailSlopeRatio |-> "initiallongtailsloperatio",
     MaxLongTailSlopeRatio |-> "maxlongtailsloperatio",
     MinLongTailSlopeRatio |-> "minlongtailsloperatio",
     InitialStepTailHeightRatio |-> "initialsteptailheightratio",
     MaxStepTailHeightRatio |-> "maxsteptailheightratio",
     MinStepTailHeightRatio |-> "minsteptailheightratio",
     HypermetQuotedPositionFlag |-> "hypermetquotedpositionflag",
     SameSlopeRatioFlag |-> "samesloperatioflag", SameAreaRatioFlag |-> "samearearatioflag"]

\* key.lower(); the other keys and keywords in use are written in lower case
Lower(key) == IF key \in DOMAIN LowerCase THEN LowerCase[key] ELSE key

\* **kw of a call without keyword arguments
NoKeywords == [k \in {} |-> None]

\* Python's False == 0 and True == 1: fitfuns.config keeps AutoFwhm as a bool,
\* fitconfig as an int, and each store is modelled with its own type
ToLibrary(key, v) == IF Lower(key) = "autofwhm" THEN v # 0 ELSE v
FromLibrary(key, v) == IF Lower(key) = "autofwhm" THEN (IF v THEN 1 ELSE 0) ELSE v

\* SpecfitFunctions.configure(**kw): the mapping self.config after the call,
\* which is also what it returns; no two keywords are equal up to case
LibraryConfigure(cfg, kw) ==
    LET matched(key) == \E config_key \in DOMAIN cfg : Lower(config_key) = Lower(key)
        keyword(config_key) == CHOOSE key \in DOMAIN kw : Lower(config_key) = Lower(key)
        notdone == {key \in DOMAIN kw : ~matched(key)}
    IN [c \in (DOMAIN cfg) \cup notdone |->
           IF c \in notdone THEN ToLibrary(c, kw[c])
           ELSE IF \E key \in DOMAIN kw : Lower(c) = Lower(key)
           THEN ToLibrary(c, kw[keyword(c)])
           ELSE cfg[c]]

\* the first loop of configure() (specfit.py:940-942), and the assignments
\* of its last loop: the keywords spelled as the keys of fitconfig
MergeKeywords(fc, kw, keys) ==
    [key \in DOMAIN fc |-> IF key \in keys /\ key \in DOMAIN kw THEN kw[key] ELSE fc[key]]

\* the configuration function of the active theory, or None
ActiveConfigurator(fc) ==
    IF fc.fittheory # None /\ fc.fittheory \in DOMAIN theorydict
    THEN At(theorydict[fc.fittheory], 3)
    ELSE None

\* Specfit.configure(**kw) on the stores fc (fitconfig) and cfg (fitfuns.config):
\* the stores and the selection when the call returns or raises
ConfigureRun(fc, cfg, kw) ==
    LET allkeys == {FITCONFIG_KEYS[i] : i \in DOMAIN FITCONFIG_KEYS}
        fc1 == MergeKeywords(fc, kw, allkeys)
        configured == ActiveConfigurator(fc1) = "fitfuns.configure"
        cfg2 == IF configured THEN LibraryConfigure(cfg, kw) ELSE cfg
        \* result.update(configurator(**kw)), then fitconfig[key] = result[key]
        fc2 == IF configured
               THEN [key \in DOMAIN fc1 |->
                        IF key \in DOMAIN cfg2 THEN FromLibrary(key, cfg2[key]) ELSE fc1[key]]
               ELSE fc1
        \* the last loop reaches "fitbkg", then "fittheory"
        fc3 == MergeKeywords(fc2, kw, allkeys \ {"fittheory"})
        fc4 == MergeKeywords(fc3, kw, {"fittheory"})
    IN IF fc3.fitbkg \notin DOMAIN bkgdict
       THEN [err |-> "KeyError", fitconfig |-> fc3, config |-> cfg2, bkgfun |-> bkgfun,
             theoryfun |-> theoryfun, modelderiv |-> modelderiv]
       ELSE IF fc4.fittheory = None
       THEN [err |-> NoError, fitconfig |-> fc4, config |-> cfg2,
             bkgfun |-> At(bkgdict[fc3.fitbkg], 0),
             theoryfun |-> theoryfun, modelderiv |-> modelderiv]
       ELSE IF fc4.fittheory \notin DOMAIN theorydict
       THEN [err |-> "KeyError", fitconfig |-> fc4, config |-> cfg2,
             bkgfun |-> At(bkgdict[fc3.fitbkg], 0),
             theoryfun |-> theoryfun, modelderiv |-> modelderiv]
       ELSE [err |-> NoError, fitconfig |-> fc4, config |-> cfg2,
             bkgfun |-> At(bkgdict[fc3.fitbkg], 0),
             theoryfun |-> At(theorydict[fc4.fittheory], 0),
             modelderiv |-> SetTheoryDeriv(theorydict[fc4.fittheory])]

\* Specfit.configure(**kw); `form` tells how the caller built the keywords:
\* "none" for configure(), "current" for configure(**fitconfig), "keywords"
configure(form, kw) ==
    LET r == ConfigureRun(fitconfig, config, kw)
    IN /\ fitconfig' = r.fitconfig
       /\ config' = r.config
       /\ bkgfun' = r.bkgfun
       /\ theoryfun' = r.theoryfun
       /\ modelderiv' = r.modelderiv
       /\ raised' = r.err
       /\ libCall' = [called |-> FALSE]
       /\ lastCall' = [op |-> "configure", form |-> form,
                       kw |-> IF form = "keywords" THEN kw ELSE NoKeywords]
       /\ UNCHANGED <<registryVars, fitVars, dataVars, bkg_internal_old>>

(***************************************************************************)
(* Specfit.mcaregions                                                      *)
(***************************************************************************)
Min2(a, b) == IF a <= b THEN a ELSE b
Max2(a, b) == IF a >= b THEN a ELSE b

\* the sequence s with its last element replaced by v
ReplaceLast(s, v) == [i \in DOMAIN s |-> IF i = Len(s) THEN v ELSE s[i]]

\* the loop of mcaregions over the peaks that remain, `regions` being the
\* list built so far; xdata0 and xdata1 are the ends of the data range
RECURSIVE RegionsLoop(_, _, _, _, _)
RegionsLoop(peaks, regions, delta, xdata_0, xdata_1) ==
    IF peaks = <<>> THEN regions
    ELSE LET peak == Head(peaks)
             x0 == Max2(peak - delta, xdata_0)
             x1 == Min2(peak + delta, xdata_1)
             last == regions[Len(regions)]
             next == IF regions = <<>> THEN <<<<x0, x1>>>>
                     ELSE IF x0 < last[1] THEN ReplaceLast(regions, <<x0, last[2]>>)
                     ELSE IF x0 < last[2] THEN ReplaceLast(regions, <<last[1], x1>>)
                     ELSE Append(regions, <<x0, x1>>)
         IN RegionsLoop(Tail(peaks), next, delta, xdata_0, xdata_1)

\* Specfit.mcaregions(peaks, fwhm) on the working abscissas xd: the list of
\* regions [x0, x1] it returns, or the exception of xdata[0] on empty data
McaRegions(xd, peaks, fwhm) ==
    IF Len(xd) = 0 THEN [err |-> "IndexError", regions |-> <<>>]
    ELSE [err |-> NoError,
          regions |-> RegionsLoop(peaks, <<>>, 3 * fwhm,
                                  Min2(xd[1], xd[Len(xd)]), Max2(xd[1], xd[Len(xd)]))]

\* a caller evaluates Specfit.mcaregions(peaks, fwhm)
mcaregions(peaks, fwhm) ==
    LET r == McaRegions(xdata, peaks, fwhm)
    IN /\ raised' = r.err
       /\ lastCall' = [op |-> "mcaregions", peaks |-> peaks, fwhm |-> fwhm, regions |-> r.regions]
       /\ UNCHANGED <<registryVars, selectionVars, fitVars, dataVars, bkg_internal_old, libVars>>

(***************************************************************************)
(* Specfit.gendata and Specfit.mcaresidualssearch                          *)
(***************************************************************************)
\* 'part' in name, for the names of the model: a name of a theory's template,
\* or that name followed by the number of its peak
NameHas(name, part) ==
    \/ name = part
    \/ \E k \in 0 .. (MaxPeaks + MaxRefits + 1) : name = part \o Suffix(k)

\* noigno of Specfit.gendata: the fitresult of the parameters that are not
\* IGNOREd
NoIgnoResults(plist) ==
    LET kept == SelectSeq(plist, LAMBDA param : param.code # "IGNORE")
    IN [k \in DOMAIN kept |-> kept[k].fitresult]

\* Specfit.gendata(x, paramlist) with x the abscissas self.xdata: the
\* exception it ends with, or NoError; it reads the fitresult of the
\* parameters that are not IGNOREd
GenData(plist) ==
    IF plist = UnsetList THEN "AttributeError"
    ELSE LET e == FitFunction(Cardinality({i \in DOMAIN plist : plist[i].code # "IGNORE"}))
         IN IF e # NoError THEN e ELSE ModelBkg(NoIgnoResults(plist), xdata).err

\* the attributes of bkg_internal after gendata(x, paramlist)
GenDataBkg(plist) ==
    IF plist = UnsetList THEN bkg_internal_old
    ELSE ModelBkg(NoIgnoResults(plist), xdata).old

\* the arguments of the calls of the evaluators Specfit.fitfunction(pars, x)
\* makes when it returns: pars[0:nb_bg_pars] for the background, and for the
\* peak i the slice pars[start_par_index:end_par_index]
EvaluatorCalls(pars) ==
    LET nb_bg_pars == Len(At(bkgdict[fitconfig.fitbkg], 1))
        nb_peak_pars == Len(At(theorydict[fitconfig.fittheory], 1))
        nb_peaks == IntQuotient(Len(pars) - nb_bg_pars, nb_peak_pars)
    IN [bkg |-> IF nb_bg_pars > 0 THEN SubSeq(pars, 1, nb_bg_pars) ELSE <<>>,
        peaks |-> [i \in 1 .. nb_peaks |->
                      SubSeq(pars, nb_bg_pars + (i - 1) * nb_peak_pars + 1,
                             nb_bg_pars + i * nb_peak_pars)]]

\* noigno of Specfit.gendata, each fitresult standing as the index, in the
\* table, of the parameter it is the fitresult of
NoIgno(plist) ==
    SelectSeq([i \in DOMAIN plist |-> i], LAMBDA i : plist[i].code # "IGNORE")

\* a caller evaluates Specfit.gendata()
gendata ==
    /\ raised' = GenData(paramlist)
    /\ lastCall' = [op |-> "gendata",
                    calls |-> IF GenData(paramlist) = NoError
                              THEN EvaluatorCalls(NoIgno(paramlist))
                              ELSE [bkg |-> <<>>, peaks |-> <<>>]]
    /\ bkg_internal_old' = GenDataBkg(paramlist)
    /\ UNCHANGED <<registryVars, selectionVars, fitVars, dataVars, libVars>>

\* the area mcaresidualssearch computes from the height and the fwhm of the
\* residual peak
ResidualArea == 450

\* v / 2, kept exact: the bounds pos - 0.5 * fwhm and pos + 0.5 * fwhm
Halves(v) == [halves |-> v]

\* what the analysis of the residuals can find on n samples: no positive
\* residual, or the largest residual at the first or at the last sample
ResidualOutcomes(n) ==
    {[found |-> FALSE, at |-> 0]} \cup {[found |-> TRUE, at |-> j] : j \in {1, n} \cap (1 .. n)}

\* one element of idx (specfit.py:1242-1243): the sample at abscissa v is
\* farther than 0.8 * fwhm from the peak
OffPeak(v, peak, fwhm) == 10 * v < 10 * peak - 8 * fwhm \/ 10 * v > 10 * peak + 8 * fwhm

\* Specfit.mcaresidualssearch(x, y, sigmay, paramlist) with y the array
\* self.ydata, when the analysis of the residuals ends as `res`: the
\* exception, the array y after the call (y *= idx works in place), and the
\* (newpar, newcodes) returned, one entry per parameter of the new peak
ResidualsRun(x, y, sig, plist, res) ==
    LET nothing(e, yy) == [err |-> e, ydata |-> yy, newpar |-> <<>>]
    IN IF plist = UnsetList THEN nothing("AttributeError", y)
       ELSE IF fitconfig.fitbkg = "Square Filter"
       THEN nothing(IF plist = <<>> THEN "IndexError" ELSE NoError, y)
       ELSE LET fw == {i \in DOMAIN plist : NameHas(plist[i].name, "Fwhm")}
                lastfw == CHOOSE i \in fw : \A j \in fw : j <= i
                fwhm == IF fw = {} THEN 10 ELSE plist[lastfw].fitresult
                open == {i \in fw : plist[i].code \in {"FREE", "FIXED", "QUOTED", "POSITIVE"}}
                lastopen == CHOOSE i \in open : \A j \in open : j <= i
                fwhmcode == IF open = {} THEN "POSITIVE" ELSE "FACTOR"
                fwhmcons1 == IF open = {} THEN 0 ELSE lastopen - 1
                fwhmcons2 == IF open = {} THEN 0 ELSE 1
                peaks == {plist[i].fitresult :
                             i \in {j \in DOMAIN plist : NameHas(plist[j].name, "Position")}}
                gen == GenData(plist)
                masked == [i \in DOMAIN y |->
                              IF \A peak \in peaks : OffPeak(x[i], peak, fwhm)
                              THEN y[i] ELSE 0]
            IN IF gen # NoError THEN nothing(gen, y)
               ELSE IF Len(y) # Len(x) \/ Len(sig) # Len(x) THEN nothing("ValueError", y)
               ELSE IF Len(x) = 0 THEN nothing("ValueError", masked)   \* max(residuals)
               ELSE IF ~res.found THEN nothing(NoError, masked)        \* height <= 0
               ELSE LET pos == x[res.at]
                        names == At(theorydict[fitconfig.fittheory], 1)
                        areas == {i \in DOMAIN names : NameHas(names[i], "Area")}
                        entry(i) ==
                            IF NameHas(names[i], "Position")
                            THEN [estimation |-> pos, code |-> "QUOTED",
                                  cons1 |-> Halves(2 * pos - fwhm),
                                  cons2 |-> Halves(2 * pos + fwhm)]
                            ELSE IF i \in areas
                            THEN IF \A j \in areas : i <= j
                                 THEN [estimation |-> ResidualArea, code |-> "POSITIVE",
                                       cons1 |-> 0, cons2 |-> 0]
                                 ELSE [estimation |-> 0, code |-> "FIXED",
                                       cons1 |-> 0, cons2 |-> 0]
                            ELSE IF NameHas(names[i], "Fwhm")
                            THEN [estimation |-> fwhm, code |-> fwhmcode,
                                  cons1 |-> fwhmcons1, cons2 |-> fwhmcons2]
                            ELSE [estimation |-> 0, code |-> "FIXED",
                                  cons1 |-> 0, cons2 |-> 0]
                    IN IF areas # {} /\ fwhm <= 0 THEN nothing(NoError, masked)  \* area <= 0
                       ELSE [err |-> NoError, ydata |-> masked,
                             newpar |-> [i \in DOMAIN names |-> entry(i)]]

\* the attributes of bkg_internal after mcaresidualssearch(): it calls
\* gendata unless the background is 'Square Filter'
ResidualsBkg(plist) ==
    IF fitconfig.fitbkg = "Square Filter" THEN bkg_internal_old ELSE GenDataBkg(plist)

\* a caller evaluates Specfit.mcaresidualssearch()
mcaresidualssearch ==
    \E res \in ResidualOutcomes(Len(xdata)) :
        \E r \in {ResidualsRun(xdata, ydata, sigmay, paramlist, res)} :
           /\ ydata' = r.ydata
           /\ bkg_internal_old' = ResidualsBkg(paramlist)
           /\ raised' = r.err
           /\ lastCall' = [op |-> "mcaresidualssearch", newpar |-> r.newpar]
           /\ UNCHANGED <<registryVars, selectionVars, fitVars, libVars,
                          xdata0, ydata0, sigmay0, xdata, sigmay>>

(***************************************************************************)
(* Specfit.mcafit: the call runs as a sequence of steps, one per call of   *)
(* estimate() and startfit() it makes; lastCall holds its position (pc),   *)
(* the step it took last and its local variables                           *)
(***************************************************************************)
\* the values guess_yscaling and guess_fwhm compute from the data
GuessedYscaling == 2
GuessedFwhm == 4

\* the truth value of a flag of fitconfig that holds a number
Flag(v) == v # 0

\* no call of mcafit is in progress
McaIdle == IF lastCall.op = "mcafit" THEN lastCall.pc \in {"returned", "raised"} ELSE TRUE

\* position pc of a call of mcafit in progress
McaAt(pc) == IF lastCall.op = "mcafit" THEN lastCall.pc = pc ELSE FALSE

\* the lists of indices SpecfitFuns.seek can return on npoints samples, when
\* mcafit calls it (specfit.py:1008): up to MaxPeaks ascending indices
SeekOutcomes(npoints, fwhm) ==
    IF 2 * npoints > 3 * fwhm
    THEN {s \in UNION {[1 .. k -> {1, npoints - 1}] : k \in 0 .. MaxPeaks} :
             /\ \A i \in DOMAIN s : s[i] >= 0 /\ s[i] < npoints
             /\ \A i, j \in DOMAIN s : i < j => s[i] < s[j]}
    ELSE {<<>>}

\* the width fwhm of mcafit (specfit.py:989-997) and the keywords of its
\* call of configure (specfit.py:1000-1004)
McaFwhm == IF Flag(fitconfig.AutoFwhm) THEN GuessedFwhm ELSE fitconfig.FwhmPoints
McaKeywords ==
    [Yscaling |-> IF fitconfig.AutoScaling THEN GuessedYscaling ELSE fitconfig.Yscaling,
     autoscaling |-> 0,
     FwhmPoints |-> McaFwhm,
     Sensitivity |-> fitconfig.Sensitivity]

\* the regions mcafit computes on the data d when seek returns peaksidx
\* (specfit.py:1010-1018)
McaFitRegions(d, peaksidx) ==
    IF peaksidx # <<>>
    THEN McaRegions(d.xdata, [i \in DOMAIN peaksidx |-> At(d.xdata, peaksidx[i])],
                    At(d.xdata, McaFwhm) - At(d.xdata, 0)).regions
    ELSE <<>>

\* the part of mcafit(x, y, sigmay, fwhm_points=...) before its first
\* estimate() (specfit.py:969-1025): d is what its setdata leaves, c what its
\* configure leaves, w what the setdata of the first region leaves. The local
\* fwhm is assigned only when fwhm_points is None (specfit.py:989-993), and
\* int(fwhm) reads it (specfit.py:996). The field fwhm of the result is the
\* width the call reaches the peak search with, None when it ends before
McaBegin(d, c, regions, w, fwhm_points) ==
    LET kept == [err |-> NoError, fitconfig |-> fitconfig, config |-> config,
                 bkgfun |-> bkgfun, theoryfun |-> theoryfun, modelderiv |-> modelderiv]
        out(e, pc, data, conf, regs, configured) ==
            [err |-> e, pc |-> pc, data |-> data, conf |-> conf, regions |-> regs,
             configured |-> configured,
             fwhm |-> IF configured /\ c.err = NoError THEN McaFwhm ELSE NoneNum,
             xmin0 |-> IF Len(d.xdata) > 0 THEN d.xdata[1] ELSE NoneNum,
             xmax0 |-> IF Len(d.xdata) > 0 THEN d.xdata[Len(d.xdata)] ELSE NoneNum]
    IN IF d.err # NoError THEN out(d.err, "raised", d, kept, <<>>, FALSE)
       ELSE IF /\ Len(d.ydata0) = 0
               /\ \/ fitconfig.AutoScaling
                  \/ fwhm_points = NoneNum /\ Flag(fitconfig.AutoFwhm)
       THEN out("ValueError", "raised", d, kept, <<>>, FALSE)
       ELSE IF fwhm_points # NoneNum
       THEN out("UnboundLocalError", "raised", d, kept, <<>>, FALSE)
       ELSE IF c.err # NoError THEN out(c.err, "raised", d, c, <<>>, TRUE)
       ELSE IF Len(d.xdata) = 0 THEN out("IndexError", "raised", d, c, <<>>, TRUE)
       ELSE IF regions = <<>> THEN out(NoError, "returned", d, c, <<>>, TRUE)
       ELSE out(w.err, IF w.err # NoError THEN "raised" ELSE "estimate", w, c, regions, TRUE)

\* a caller calls Specfit.mcafit(); the call runs up to its first estimate().
\* `form` is "defaults" for mcafit() and "data" for mcafit(x, y, sigmay) with
\* the data given to setdata; fwhm_points is the keyword of that name, None
\* when the caller leaves it out
mcafit_call(form, fwhm_points) ==
    /\ McaIdle
    /\ \E d \in {SetDataResult(IF form = "data" THEN xdata0 ELSE Arange(Len(ydata0)),
                               ydata0,
                               IF form = "data" THEN sigmay0 ELSE NoneSeq,
                               NoneNum, NoneNum)} :
       \E c \in {ConfigureRun(fitconfig, config, McaKeywords)} :
       \E peaksidx \in SeekOutcomes(Len(d.ydata), McaFwhm) :
       \E regions \in {McaFitRegions(d, peaksidx)} :
       \E w \in {IF regions # <<>>
                 THEN SetDataResult(d.xdata0, d.ydata0, d.sigmay0,
                                    regions[1][1], regions[1][2])
                 ELSE d} :
       \E r \in {McaBegin(d, c, regions, w, fwhm_points)} :
             /\ xdata0' = r.data.xdata0
             /\ ydata0' = r.data.ydata0
             /\ sigmay0' = r.data.sigmay0
             /\ xdata' = r.data.xdata
             /\ ydata' = r.data.ydata
             /\ sigmay' = r.data.sigmay
             /\ bkg_internal_old' = BkgInternalDetached(bkg_internal_old)
             /\ fitconfig' = r.conf.fitconfig
             /\ config' = r.conf.config
             /\ bkgfun' = r.conf.bkgfun
             /\ theoryfun' = r.conf.theoryfun
             /\ modelderiv' = r.conf.modelderiv
             /\ raised' = r.err
             /\ lastCall' = [op |-> "mcafit", step |-> "call", pc |-> r.pc, form |-> form,
                             fwhm_points |-> fwhm_points, fwhm |-> r.fwhm,
                             before |-> [xdata0 |-> xdata0, ydata0 |-> ydata0,
                                         sigmay0 |-> sigmay0],
                             regions |-> r.regions, region |-> 1,
                             xmin0 |-> r.xmin0, xmax0 |-> r.xmax0,
                             mcaresult |-> <<>>, refits |-> 0]
             /\ libCall' = IF r.configured THEN [called |-> FALSE] ELSE libCall
             /\ UNCHANGED <<registryVars, fitVars>>

\* mcafit calls self.estimate(mcafit=1) (specfit.py:1027); an exception of
\* estimate() ends the call of mcafit
mcafit_estimate ==
    /\ McaAt("estimate")
    /\ \E o \in EstimatorOutcomes(SelectedEstimator, SelectedNbParams, FALSE) :
          LET r == EstimateRun(o)
          IN /\ state' = r.state
             /\ chisq' = r.chisq
             /\ emitted' = r.emitted
             /\ final_theory' = r.final_theory
             /\ paramlist' = r.paramlist
             /\ esti_bkg' = r.esti_bkg
             /\ esti_fun' = r.esti_fun
             /\ fitRaised' = r.raised
             /\ fitOp' = "estimate"
             /\ solverCall' = [called |-> FALSE]
             /\ raised' = r.raised
             /\ lastCall' = [lastCall EXCEPT
                                !.step = "estimate",
                                !.pc = IF r.raised # NoError THEN "raised" ELSE "startfit"]
             /\ UNCHANGED <<registryVars, selectionVars, dataVars, bkg_internal_old, libVars>>

\* mcafit calls self.startfit: after estimate() (specfit.py:1029), and after
\* a peak was added in the residual loop (specfit.py:1052).  The residual
\* loop goes on while chisq > 2.5
mcafit_startfit ==
    /\ McaAt("startfit")
    /\ \E so \in SolverOutcomes :
          LET r == StartfitRun(so)
          IN /\ state' = r.state
             /\ chisq' = r.chisq
             /\ emitted' = r.emitted
             /\ paramlist' = r.paramlist
             /\ solverCall' = r.solverCall
             /\ fitRaised' = r.raised
             /\ fitOp' = "startfit"
             /\ raised' = r.raised
             /\ lastCall' = [lastCall EXCEPT
                                !.step = "startfit",
                                !.pc = IF r.raised # NoError THEN "raised"
                                       ELSE IF Flag(fitconfig.ResidualsFlag)
                                               /\ 2 * r.chisq > 5
                                       THEN "residuals" ELSE "result"]
             /\ bkg_internal_old' = SolverBkg(r.solverCall)
             /\ UNCHANGED <<registryVars, selectionVars, dataVars, libVars,
                            final_theory, esti_bkg, esti_fun>>

\* the table after mcafit has added the peak newpar to it (specfit.py:1035-1051)
AddResidualPeak(plist, newpar) ==
    LET groups == {plist[i].group : i \in DOMAIN plist} \cup {0}
        newg == (CHOOSE g \in groups : \A h \in groups : h <= g) + 1
        names == At(theorydict[fitconfig.fittheory], 1)
    IN [i \in DOMAIN plist |-> [plist[i] EXCEPT !.estimation = plist[i].fitresult]]
       \o [i \in DOMAIN names |->
              [name |-> names[i] \o Suffix(newg),
               estimation |-> newpar[i].estimation,
               group |-> newg,
               code |-> newpar[i].code,
               cons1 |-> newpar[i].cons1,
               cons2 |-> newpar[i].cons2,
               fitresult |-> 0,
               sigma |-> 0]]

\* one round of the residual loop of mcafit up to its startfit()
\* (specfit.py:1033-1054); the search adds at most MaxRefits peaks in a region
mcafit_residuals ==
    /\ McaAt("residuals")
    /\ \E res \in ResidualOutcomes(Len(xdata)) :
          /\ res.found => lastCall.refits < MaxRefits
          /\ \E r \in {ResidualsRun(xdata, ydata, sigmay, paramlist, res)} :
             \E added \in {r.err = NoError /\ r.newpar # <<>>} :
                /\ ydata' = r.ydata
                /\ bkg_internal_old' = ResidualsBkg(paramlist)
                /\ paramlist' = IF added THEN AddResidualPeak(paramlist, r.newpar)
                                ELSE paramlist
                /\ raised' = r.err
                /\ lastCall' = [lastCall EXCEPT
                                   !.step = "residuals",
                                   !.refits = IF added THEN @ + 1 ELSE @,
                                   !.pc = IF r.err # NoError THEN "raised"
                                          ELSE IF added THEN "startfit" ELSE "result"]
                /\ UNCHANGED <<registryVars, selectionVars, libVars, xdata0, ydata0,
                               sigmay0, xdata, sigmay, state, chisq, final_theory,
                               emitted, esti_bkg, esti_fun, solverCall, fitOp, fitRaised>>

\* the end of one round of the loop over the regions (specfit.py:1055-1056):
\* mcagetresult(), which calls configure(), then setdata(xdata0, ydata0,
\* xmin=xmin0, xmax=xmax0), and the setdata of the next region
\* (specfit.py:1024) or the return.  The areas of mcagetareas() are not observed
mcafit_result ==
    /\ McaAt("result")
    /\ \E c \in {ConfigureRun(fitconfig, config, NoKeywords)} :
       \E d \in {SetDataResult(xdata0, ydata0, NoneSeq, lastCall.xmin0, lastCall.xmax0)} :
       \E more \in {lastCall.region < Len(lastCall.regions)} :
       \E w \in {IF c.err = NoError /\ d.err = NoError /\ more
                 THEN SetDataResult(d.xdata0, d.ydata0, d.sigmay0,
                                    lastCall.regions[lastCall.region + 1][1],
                                    lastCall.regions[lastCall.region + 1][2])
                 ELSE d} :
       \E err \in {IF c.err # NoError THEN c.err ELSE w.err} :
          /\ fitconfig' = c.fitconfig
          /\ config' = c.config
          /\ bkgfun' = c.bkgfun
          /\ theoryfun' = c.theoryfun
          /\ modelderiv' = c.modelderiv
          /\ xdata0' = IF c.err # NoError THEN xdata0 ELSE w.xdata0
          /\ ydata0' = IF c.err # NoError THEN ydata0 ELSE w.ydata0
          /\ sigmay0' = IF c.err # NoError THEN sigmay0 ELSE w.sigmay0
          /\ xdata' = IF c.err # NoError THEN xdata ELSE w.xdata
          /\ ydata' = IF c.err # NoError THEN ydata ELSE w.ydata
          /\ sigmay' = IF c.err # NoError THEN sigmay ELSE w.sigmay
          /\ bkg_internal_old' = IF c.err # NoError THEN bkg_internal_old
                                  ELSE BkgInternalDetached(bkg_internal_old)
          /\ raised' = err
          /\ lastCall' = [lastCall EXCEPT
                             !.step = "result",
                             !.mcaresult =
                                 IF c.err # NoError THEN @
                                 ELSE Append(@, [xbegin |-> Min2(xdata[1], xdata[Len(xdata)]),
                                                 xend |-> Max2(xdata[1], xdata[Len(xdata)]),
                                                 fitstate |-> state, chisq |-> chisq,
                                                 paramlist |-> paramlist]),
                             !.region = IF err = NoError /\ more THEN @ + 1 ELSE @,
                             !.refits = 0,
                             !.pc = IF err # NoError THEN "raised"
                                    ELSE IF more THEN "estimate" ELSE "returned"]
          /\ libCall' = [called |-> FALSE]
          /\ UNCHANGED <<registryVars, fitVars>>

(***************************************************************************)
(* The driver and its callers                                              *)
(***************************************************************************)
\* Specfit() : the instance after __init__ with its default arguments
Init ==
    /\ fitconfig = [AutoFwhm |-> 0, FwhmPoints |-> 8, AutoScaling |-> FALSE,
                    Yscaling |-> 1, Sensitivity |-> 25, ResidualsFlag |-> 0,
                    McaMode |-> 0, fitbkg |-> "No Background", fittheory |-> None]
    /\ theorydict = <<>>
    /\ bkgdict = [b \in {"No Background", "Constant", "Linear", "Internal"} |->
                     IF b = "No Background" THEN <<"bkg_none", <<>>, None>>
                     ELSE IF b = "Constant"
                     THEN <<"bkg_constant", <<"Constant">>, "estimate_builtin_bkg">>
                     ELSE IF b = "Linear"
                     THEN <<"bkg_linear", <<"Constant", "Slope">>, "estimate_builtin_bkg">>
                     ELSE <<"bkg_internal", <<"Curvature", "Iterations", "Constant">>,
                            "estimate_builtin_bkg">>]
    /\ theoryfun = Unset
    /\ bkgfun = Unset
    /\ modelderiv = Unset
    /\ state = Unset
    /\ chisq = UnsetNum
    /\ final_theory = <<>>
    /\ paramlist = UnsetList
    /\ xdata0 = <<>> /\ ydata0 = <<>> /\ sigmay0 = <<>>
    /\ xdata = <<>> /\ ydata = <<>> /\ sigmay = <<>>
    /\ config = SPECFITFUNCTIONS_DEFAULTS
    /\ libCall = [called |-> FALSE]
    /\ emitted = <<>>
    /\ esti_bkg = [reached |-> FALSE]
    /\ esti_fun = [reached |-> FALSE]
    /\ solverCall = [called |-> FALSE]
    /\ fitOp = "none"
    /\ fitRaised = NoError
    /\ raised = NoError
    /\ bkg_internal_old = BkgInternalInit
    /\ lastCall = NoCall

\* the data the callers of the model hand to setdata: none, and three samples
CallerData ==
    {[x |-> NoneSeq, y |-> NoneSeq, sigmay |-> NoneSeq, xmin |-> NoneNum, xmax |-> NoneNum],
     [x |-> <<2, 4, 6>>, y |-> <<1, 5, 1>>, sigmay |-> NoneSeq, xmin |-> NoneNum, xmax |-> NoneNum]}

\* a user module with one theory whose estimator returns the constraints one row
\* per parameter, as the ESTIMATE format of specfitfunctions documents it
UserModule ==
    [THEORY |-> Attr(<<"Rows">>),
     FUNCTION |-> Attr(<<"user_function">>),
     PARAMETERS |-> Attr(<< <<"Height", "Position", "Fwhm">> >>),
     ESTIMATE |-> Attr(<<"user_estimate_rows">>),
     CONFIGURE |-> Attr(<<None>>),
     DERIVATIVE |-> Attr(<<"user_derivative">>),
     INIT |-> NoAttr]

\* the names callers select
TheoryNames == {"Rows", "Cols"}
BkgNames == {"No Background", "Constant", "User Background"}

\* the backgrounds of the configured drivers: 'Internal' keeps a memory of
\* its latest computation
FitBkgNames == BkgNames \cup {"Internal"}

\* the callers: the theory "Cols" has an estimator that returns the constraints
\* one column per parameter, as estimate_builtin_bkg does, and an analytic
\* derivative; "User Background" has parameter names and no estimator
Next ==
    \/ \E d \in CallerData : setdata(d.x, d.y, d.sigmay, d.xmin, d.xmax)
    \/ addtheory("Cols", "user_function", <<"Area", "Fwhm">>,
                 "user_estimate_cols", None, "user_derivative")
    \/ addbackground("User Background", "user_background", <<"Offset">>, None)
    \/ importfun(UserModule)
    \/ \E theory \in TheoryNames : settheory(theory)
    \/ \E theory \in BkgNames : setbackground(theory)
    \/ estimate(FALSE)
    \/ startfit

Spec == Init /\ [][Next]_vars

(***************************************************************************)
(* The fit cycle of a configured driver: data are set, the theories and    *)
(* the backgrounds are registered, one theory and one background are       *)
(* selected; estimate() and startfit() are then called in any order, the   *)
(* user estimators constraining the parameters                             *)
(***************************************************************************)
\* theorydict after importfun(UserModule) and the addtheory of "Cols"
ConfiguredTheories ==
    Store(Register(<<>>, ImportCalls(UserModule).calls), "Cols",
          <<"user_function", <<"Area", "Fwhm">>, "user_estimate_cols", None, "user_derivative">>)

InitFit ==
    /\ fitconfig \in {[AutoFwhm |-> 0, FwhmPoints |-> 8, AutoScaling |-> FALSE,
                        Yscaling |-> 1, Sensitivity |-> 25, ResidualsFlag |-> 0,
                        McaMode |-> 0, fitbkg |-> b, fittheory |-> t] :
                            b \in FitBkgNames, t \in TheoryNames}
    /\ theorydict = ConfiguredTheories
    /\ bkgdict = [b \in FitBkgNames \cup {"Linear"} |->
                     IF b = "No Background" THEN <<"bkg_none", <<>>, None>>
                     ELSE IF b = "Constant"
                     THEN <<"bkg_constant", <<"Constant">>, "estimate_builtin_bkg">>
                     ELSE IF b = "Linear"
                     THEN <<"bkg_linear", <<"Constant", "Slope">>, "estimate_builtin_bkg">>
                     ELSE IF b = "Internal"
                     THEN <<"bkg_internal", <<"Curvature", "Iterations", "Constant">>,
                            "estimate_builtin_bkg">>
                     ELSE <<"user_background", <<"Offset">>, None>>]
    /\ theoryfun = At(theorydict[fitconfig.fittheory], 0)
    /\ bkgfun = At(bkgdict[fitconfig.fitbkg], 0)
    /\ modelderiv = SetTheoryDeriv(theorydict[fitconfig.fittheory])
    /\ state = Unset
    /\ chisq = UnsetNum
    /\ final_theory = <<>>
    /\ paramlist = UnsetList
    /\ xdata0 = <<2, 4, 6>> /\ ydata0 = <<1, 5, 1>> /\ sigmay0 = <<1, 1, 1>>
    /\ xdata = <<2, 4, 6>> /\ ydata = <<1, 5, 1>> /\ sigmay = <<1, 1, 1>>
    /\ config = SPECFITFUNCTIONS_DEFAULTS
    /\ libCall = [called |-> FALSE]
    /\ emitted = <<>>
    /\ esti_bkg = [reached |-> FALSE]
    /\ esti_fun = [reached |-> FALSE]
    /\ solverCall = [called |-> FALSE]
    /\ fitOp = "none"
    /\ fitRaised = NoError
    /\ raised = NoError
    /\ bkg_internal_old = BkgInternalInit
    /\ lastCall = NoCall

NextFit ==
    \/ estimate(TRUE)
    \/ startfit

SpecFit == InitFit /\ [][NextFit]_vars

(***************************************************************************)
(* The model evaluated on the table: the fit cycle of a configured driver  *)
(* whose caller also calls gendata()                                       *)
(***************************************************************************)
NextGen ==
    \/ estimate(TRUE)
    \/ startfit
    \/ gendata

SpecGen == InitFit /\ [][NextGen]_vars

(***************************************************************************)
(* The estimators of the library, called with the flags of fitfuns.config  *)
(* set by their configuration function                                     *)
(***************************************************************************)
\* the keywords the callers give SpecfitFunctions.configure
ConfigureKeywords == {"NoConstraintsFlag", "SameFwhmFlag", "ForcePeakPresence"}

NextLib ==
    \/ \E key \in ConfigureKeywords : \E value \in BOOLEAN : fitfuns_configure(key, value)
    \/ \E t \in Range(Len(ESTIMATE)) : \E q \in ScaledEstimatorArgs : library_estimate(t, q)

SpecLib == Init /\ [][NextLib]_vars

(***************************************************************************)
(* The estimators called with every yscaling: None, 0 and a scale          *)
(***************************************************************************)
NextScaling ==
    \/ \E value \in BOOLEAN : fitfuns_configure("ForcePeakPresence", value)
    \/ \E t \in Range(Len(ESTIMATE)) : \E q \in ValidEstimatorArgs : library_estimate(t, q)

SpecScaling == Init /\ [][NextScaling]_vars

(***************************************************************************)
(* The hypermet estimator under every mask of terms: HypermetTails and the *)
(* flags that tie the tails of the peaks are configured, and the estimator *)
(* of 'Hypermet' is called                                                 *)
(***************************************************************************)
\* the index of 'Hypermet' in the lists of the library
HypermetTheory == CHOOSE t \in Range(Len(THEORY)) : At(THEORY, t) = "Hypermet"

NextHypermet ==
    \/ \E mask \in 0 .. 15 : fitfuns_configure("HypermetTails", mask)
    \/ \E key \in {"SameSlopeRatioFlag", "SameAreaRatioFlag"} :
          \E value \in BOOLEAN : fitfuns_configure(key, value)
    \/ \E q \in ScaledEstimatorArgs : library_estimate(HypermetTheory, q)

SpecHypermet == Init /\ [][NextHypermet]_vars

(***************************************************************************)
(* Registration, selection and configuration: plug-in modules are          *)
(* imported, among them specfitfunctions itself, names are selected and    *)
(* the driver is configured                                                *)
(***************************************************************************)
\* FUNCTION and CONFIGURE of specfitfunctions
FUNCTION ==
    <<"sum_gauss", "sum_lorentz", "sum_agauss", "sum_alorentz", "sum_pvoigt",
      "sum_apvoigt", "sum_splitgauss", "sum_splitlorentz", "sum_splitpvoigt",
      "sum_downstep", "sum_upstep", "sum_slit", "atan", "sum_ahypermet",
      "periodic_gauss">>

CONFIGURE == [i \in DOMAIN THEORY |-> "fitfuns.configure"]

\* the module specfitfunctions as importfun sees it
LibraryModule ==
    [THEORY |-> Attr(THEORY),
     FUNCTION |-> Attr(FUNCTION),
     PARAMETERS |-> Attr(PARAMETERS),
     ESTIMATE |-> Attr(ESTIMATE),
     CONFIGURE |-> Attr(CONFIGURE),
     DERIVATIVE |-> NoAttr,
     INIT |-> NoAttr]

\* a user module with two theories that defines INIT and none of ESTIMATE,
\* CONFIGURE and DERIVATIVE
MinimalModule ==
    [THEORY |-> Attr(<<"Plain", "Flat">>),
     FUNCTION |-> Attr(<<"plain_function", "flat_function">>),
     PARAMETERS |-> Attr(<< <<"Height">>, <<"Level", "Slope">> >>),
     ESTIMATE |-> NoAttr,
     CONFIGURE |-> NoAttr,
     DERIVATIVE |-> NoAttr,
     INIT |-> Attr("user_init")]

Bundles == {LibraryModule, UserModule, MinimalModule}

\* the names the callers select: of the library, of a user module, and one
\* that nothing registers
SelectedTheories == {"Gaussians", "Plain"}
SelectedBackgrounds == {"Constant", "Missing"}

\* the keywords the callers give Specfit.configure
KeywordSets ==
    {[FwhmPoints |-> 5], [autoscaling |-> TRUE]}
    \cup {[fittheory |-> t] : t \in {"Rows", "Missing"}}
    \cup {[fitbkg |-> b] : b \in {"No Background", "Missing"}}
    \cup {[fitbkg |-> "Missing", fittheory |-> "Gaussians"]}

NextConf ==
    \/ \E m \in Bundles : importfun(m)
    \/ \E theory \in SelectedTheories : settheory(theory)
    \/ \E theory \in SelectedBackgrounds : setbackground(theory)
    \/ configure("none", NoKeywords)
    \/ configure("current", fitconfig)
    \/ \E kw \in KeywordSets : configure("keywords", kw)

SpecConf == Init /\ [][NextConf]_vars

(***************************************************************************)
(* The data buffers: setdata is called with abscissas in any order, with   *)
(* and without uncertainties and window, and with sequences of different   *)
(* lengths                                                                 *)
(***************************************************************************)
\* the abscissa values of the callers, and the bounds of their windows
Abscissas == {2, 4, 6}
WindowBounds == {NoneNum, 3, 4, 7}

\* the i-th ordinate and the i-th uncertainty of the callers
Ordinate(i) == 10 + i
Uncertainty(i) == 20 + i

\* the calls of setdata: x of up to MaxLen samples or None; y as long as x,
\* one sample shorter, or None; sigmay as long as y, one value shorter, or None
DataCalls ==
    {[x |-> x, y |-> y, sigmay |-> sg, xmin |-> lo, xmax |-> hi] :
        x \in {NoneSeq} \cup UNION {[1 .. n -> Abscissas] : n \in 0 .. MaxLen},
        y \in {NoneSeq} \cup {[i \in 1 .. n |-> Ordinate(i)] : n \in 0 .. MaxLen},
        sg \in {NoneSeq} \cup {[i \in 1 .. n |-> Uncertainty(i)] : n \in 0 .. MaxLen},
        lo \in WindowBounds, hi \in WindowBounds \ {7}}

ValidDataCalls ==
    {d \in DataCalls :
        /\ d.y # NoneSeq => (d.x = NoneSeq \/ Len(d.x) - Len(d.y) \in {0, 1})
        /\ d.y = NoneSeq => (d.sigmay = NoneSeq /\ d.xmin = NoneNum /\ d.xmax = NoneNum)
        /\ (d.y # NoneSeq /\ d.sigmay # NoneSeq) => Len(d.y) - Len(d.sigmay) \in {0, 1}}

\* setdata assigns the six buffers whatever they held, so its calls are made
\* on the driver as constructed
NextData ==
    /\ bkg_internal_old = BkgInternalInit
    /\ lastCall = NoCall
    /\ \E d \in ValidDataCalls : setdata(d.x, d.y, d.sigmay, d.xmin, d.xmax)

SpecData == Init /\ [][NextData]_vars

(***************************************************************************)
(* The regions of an MCA fit: mcaregions is called with peaks in any order *)
(* on data whose abscissas ascend or descend                               *)
(***************************************************************************)
\* the data of the callers: abscissas 0 .. 8, ascending and descending, and none
RegionData ==
    {[x |-> [i \in 1 .. 9 |-> i - 1], y |-> [i \in 1 .. 9 |-> Ordinate(i)]],
     [x |-> [i \in 1 .. 9 |-> 9 - i], y |-> [i \in 1 .. 9 |-> Ordinate(i)]],
     [x |-> NoneSeq, y |-> NoneSeq]}

\* the positions of the peaks, within the data range, and the widths
PeakPositions == {0, 1, 2, 5, 8}
PeakWidths == {1, 2}

\* the lists of at most MaxPeaks peaks
PeakLists == UNION {[1 .. n -> PeakPositions] : n \in 0 .. MaxPeaks}

NextRegions ==
    \/ \E d \in RegionData : setdata(d.x, d.y, NoneSeq, NoneNum, NoneNum)
    \/ \E peaks \in PeakLists : \E fwhm \in PeakWidths : mcaregions(peaks, fwhm)

SpecRegions == Init /\ [][NextRegions]_vars

(***************************************************************************)
(* The MCA fit of a configured driver: a theory and a background           *)
(* are selected, the caller has given nine samples with their abscissas    *)
(* and their uncertainties, and peaks are sought with a width of one       *)
(* sample; the caller then calls mcafit, estimate, startfit, gendata and   *)
(* mcaresidualssearch                                                      *)
(***************************************************************************)
\* the abscissas, the ordinates and the uncertainties the caller gave to setdata
McaAbscissas == [i \in 1 .. 9 |-> 194 + 2 * i]
McaOrdinates == [i \in 1 .. 9 |-> IF i \in {2, 9} THEN 5 ELSE 1]
McaUncertainties == [i \in 1 .. 9 |-> 2]

InitMca ==
    /\ fitconfig \in {[AutoFwhm |-> 0, FwhmPoints |-> 1, AutoScaling |-> FALSE,
                        Yscaling |-> 1, Sensitivity |-> 25, ResidualsFlag |-> f,
                        McaMode |-> 0, fitbkg |-> b, fittheory |-> t] :
                            b \in {"No Background", "Constant"}, f \in {0, 1},
                            t \in {"Rows", "Cols"}}
    /\ theorydict = ConfiguredTheories
    /\ bkgdict = [b \in {"No Background", "Constant", "Linear", "Internal"} |->
                     IF b = "No Background" THEN <<"bkg_none", <<>>, None>>
                     ELSE IF b = "Constant"
                     THEN <<"bkg_constant", <<"Constant">>, "estimate_builtin_bkg">>
                     ELSE IF b = "Linear"
                     THEN <<"bkg_linear", <<"Constant", "Slope">>, "estimate_builtin_bkg">>
                     ELSE <<"bkg_internal", <<"Curvature", "Iterations", "Constant">>,
                            "estimate_builtin_bkg">>]
    /\ theoryfun = At(theorydict[fitconfig.fittheory], 0)
    /\ bkgfun = At(bkgdict[fitconfig.fitbkg], 0)
    /\ modelderiv = SetTheoryDeriv(theorydict[fitconfig.fittheory])
    /\ state = Unset
    /\ chisq = UnsetNum
    /\ final_theory = <<>>
    /\ paramlist = UnsetList
    /\ xdata0 = McaAbscissas /\ ydata0 = McaOrdinates /\ sigmay0 = McaUncertainties
    /\ xdata = McaAbscissas /\ ydata = McaOrdinates /\ sigmay = McaUncertainties
    /\ config = SPECFITFUNCTIONS_DEFAULTS
    /\ libCall = [called |-> FALSE]
    /\ emitted = <<>>
    /\ esti_bkg = [reached |-> FALSE]
    /\ esti_fun = [reached |-> FALSE]
    /\ solverCall = [called |-> FALSE]
    /\ fitOp = "none"
    /\ fitRaised = NoError
    /\ raised = NoError
    /\ bkg_internal_old = BkgInternalInit
    /\ lastCall = NoCall

\* mcafit is called on the driver as configured; the caller's own calls of the
\* other operations are made on a driver on which mcafit has not run
NextMca ==
    \/ lastCall = NoCall /\ \E form \in {"defaults", "data"} : mcafit_call(form, NoneNum)
    \/ mcafit_estimate
    \/ mcafit_startfit
    \/ mcafit_residuals
    \/ mcafit_result
    \/ lastCall.op # "mcafit" /\ estimate(FALSE)
    \/ lastCall.op # "mcafit" /\ startfit
    \/ lastCall.op # "mcafit" /\ gendata
    \/ lastCall.op # "mcafit" /\ mcaresidualssearch

SpecMca == InitMca /\ [][NextMca]_vars

(***************************************************************************)
(* The internal background of a configured driver: the caller sets the     *)
(* data again, whole or cut to a window, estimates, fits and searches the  *)
(* residuals, and evaluates bkg_internal on the working abscissas          *)
(***************************************************************************)
\* the (curvature, iterations, constant) the caller evaluates bkg_internal with
BkgParsGiven == {<<0, 0, 0>>, <<1, 10000, 5>>}

NextBkg ==
    \/ \E xmin \in {NoneNum, 198} :
          setdata(McaAbscissas, McaOrdinates, McaUncertainties, xmin, NoneNum)
    \/ estimate(FALSE)
    \/ startfit
    \/ mcaresidualssearch
    \/ \E pars \in BkgParsGiven : bkg_internal(pars, xdata)

SpecBkg == InitMca /\ [][NextBkg]_vars

(***************************************************************************)
(* Properties of the fit state machine                                     *)
(***************************************************************************)
\* the last element of a non-empty sequence
Last(s) == s[Len(s)]

\* C1: chisq holds a value only while the state is 'Ready': it is None after
\* every estimate(), returned or raised, and after every startfit() that
\* raised; a startfit() that returns leaves the solver's chisq and 'Ready'
ChisqOnlyWhenReady ==
    /\ (chisq # NoneNum /\ chisq # UnsetNum) => state = "Ready"
    /\ fitOp = "estimate" => chisq = NoneNum
    /\ (fitOp = "startfit" /\ fitRaised # NoError) => chisq = NoneNum
    /\ (fitOp = "startfit" /\ fitRaised = NoError) =>
           (state = "Ready" /\ chisq = solverCall.found[2])

\* a fit has ended and has stored the largest chisq
ChisqStored == fitOp = "startfit" /\ state = "Ready" /\ chisq = MaxChisq

\* C2: the events of a call follow its transitions: the last event of the
\* latest call carries the state and the chisq of the driver, an estimate()
\* that returns has fired 'Estimate in progress' then 'Ready to Fit', a
\* startfit() that returns 'Fit in progress' then 'Ready', and no step changes
\* the state without firing an event that carries the new state
EventsFollowTransitions ==
    /\ [](/\ fitOp = "none" => (emitted = <<>> /\ state = Unset)
          /\ fitOp # "none" =>
                 /\ emitted # <<>>
                 /\ Last(emitted).status = state
                 /\ Last(emitted).chisq = chisq
          /\ (fitOp = "estimate" /\ fitRaised = NoError) =>
                 /\ Len(emitted) = 2
                 /\ emitted[1].status = "Estimate in progress" /\ emitted[1].chisq = NoneNum
                 /\ emitted[2].status = "Ready to Fit" /\ emitted[2].chisq = NoneNum
          /\ (fitOp = "startfit" /\ fitRaised = NoError) =>
                 /\ Len(emitted) = 2
                 /\ emitted[1].status = "Fit in progress" /\ emitted[1].chisq = NoneNum
                 /\ emitted[2].status = "Ready" /\ emitted[2].chisq = chisq)
    /\ [][state' # state =>
              /\ emitted' # <<>>
              /\ Last(emitted').status = state'
              /\ Last(emitted').chisq = chisq']_vars

\* a fit has ended after firing its two events, the second with a chisq
FitEventsFired ==
    /\ fitOp = "startfit" /\ fitRaised = NoError
    /\ Len(emitted) = 2 /\ emitted[2].chisq = 1 /\ emitted[2].status = "Ready"
    /\ state = "Ready" /\ chisq = 1

(***************************************************************************)
(* Properties of the parameter table estimate() builds                     *)
(***************************************************************************)
\* the constraint (code, c1, c2) that the estimator of the selected theory
\* gave the parameter at index i of its list, in the layout it returns
EstimatorRow(i) ==
    LET block == esti_fun.value[2]
    IN IF SelectedEstimator = "user_estimate_rows"
       THEN <<At2(block, i, 0), At2(block, i, 1), At2(block, i, 2)>>
       ELSE <<At2(block, 0, i), At2(block, 1, i), At2(block, 2, i)>>

\* C3: once the estimators of estimate() have returned, n*k values for the
\* theory, the table has b + n*k entries for a background with b parameter
\* names: the background names with group 0, then k groups of the n names of
\* the theory, suffixed by the group, with the estimator's values in order
TableLaidOutInGroups ==
    (fitOp = "estimate" /\ esti_fun.reached /\ fitconfig.fittheory = "Cols") =>
        LET bg_names == At(bkgdict[fitconfig.fitbkg], 1)
            b == Len(bg_names)
            template == At(theorydict[fitconfig.fittheory], 1)
            n == Len(template)
            values == esti_fun.value[1]
            k == Len(values) \div n
        IN /\ Len(paramlist) = b + n * k
           /\ \A p \in 0 .. b - 1 :
                  /\ At(paramlist, p).group = 0
                  /\ At(paramlist, p).name = At(bg_names, p)
           /\ \A g \in 0 .. k - 1 : \A j \in 0 .. n - 1 :
                  LET entry == At(paramlist, b + n * g + j)
                  IN /\ entry.group = g + 1
                     /\ entry.name = At(template, j) \o ToString(g + 1)
                     /\ entry.estimation = At(values, n * g + j)

\* C4: in the table of an estimate() that returned, a peak parameter that its
\* estimator ties to another one (FACTOR, DELTA, SUM) has cons1 = the
\* estimator's index + b; with any other code cons1 is the estimator's, and
\* cons2 is the estimator's
PeakConstraintsRebased ==
    (fitOp = "estimate" /\ fitRaised = NoError) =>
        LET b == Len(esti_bkg.value[1])
            N == Len(esti_fun.value[1])
        IN \A i \in 0 .. N - 1 :
               LET row == EstimatorRow(i)
                   entry == At(paramlist, b + i)
               IN /\ entry.cons1 = IF row[1] \in {CFACTOR, CDELTA, CSUM}
                                   THEN row[2] + b ELSE row[2]
                  /\ entry.cons2 = row[3]

\* C5: when the estimator returns its constraints one row per parameter
\* (N x 3), the table has, for every peak parameter i, the code, the cons1
\* (rebased) and the cons2 of row i of the block, whatever N
ConstraintsReadRowPerParameter ==
    (/\ fitOp = "estimate" /\ esti_fun.reached
     /\ SelectedEstimator = "user_estimate_rows"
     /\ fitconfig.fitbkg # "User Background") =>
        LET b == Len(esti_bkg.value[1])
            block == esti_fun.value[2]
            N == Len(esti_fun.value[1])
        IN /\ Len(paramlist) = b + N
           /\ \A i \in 0 .. N - 1 :
                  LET entry == At(paramlist, b + i)
                      code == CodeName(At2(block, i, 0))
                  IN /\ entry.code = code
                     /\ entry.cons1 = RebasedCons1(code, At2(block, i, 1), b)
                     /\ entry.cons2 = At2(block, i, 2)

(***************************************************************************)
(* Properties of the estimators of the library                             *)
(***************************************************************************)
\* C6: an estimator registered in ESTIMATE, called with a yscaling, returns,
\* whatever the number of peaks found, as many constraint rows as parameters,
\* a multiple of the number of names of its theory in PARAMETERS, and every
\* FACTOR, DELTA or SUM row has a c1 that is an index of the parameter list
EstimatorBlocksConsistent ==
    (libCall.called /\ libCall.args.yscaling # NoneNum) =>
        LET n == Len(At(PARAMETERS, libCall.theory))
            N == Len(libCall.params)
        IN /\ libCall.err = NoError
           /\ Len(libCall.cons) = N
           /\ N % n = 0
           /\ \A p \in DOMAIN libCall.cons :
                  libCall.cons[p][1] \in {CFACTOR, CDELTA, CSUM} =>
                      libCall.cons[p][2] \in 0 .. (N - 1)

(***************************************************************************)
(* Properties of startfit()                                                *)
(***************************************************************************)
\* C7: the solver gets the codes, cons1 and cons2 of the whole table unless
\* every parameter is FREE, and no constraints only when every one is FREE
ConstraintsHandedUnlessAllFree ==
    solverCall.called =>
        LET allFree == \A i \in DOMAIN paramlist : paramlist[i].code = "FREE"
        IN solverCall.constraints =
               IF allFree THEN NoneCons ELSE ParamConstrains(paramlist)

\* C8: when the selected theory was registered with a derivative, the solver
\* gets myderiv, which evaluates the registered derivative with index - nb
\* for index >= nb and num_deriv for the background indices
AnalyticDerivativeUsed ==
    solverCall.called =>
        LET registered == At(theorydict[fitconfig.fittheory], 4)
            nb == Len(At(bkgdict[fitconfig.fitbkg], 1))
        IN registered # None =>
               /\ solverCall.model_deriv = "myderiv"
               /\ \A index \in 0 .. Len(solverCall.p0) - 1 :
                      myderiv(index) = IF index >= nb
                                       THEN <<registered, index - nb>>
                                       ELSE <<"num_deriv", index>>

\* C9: a startfit() that returns writes fitresult and sigma of the solver in
\* every parameter that is not IGNOREd, leaves those of the IGNOREd ones, the
\* other fields and the length of the table, stores the solver's chisq and
\* ends in 'Ready'
FitResultsWrittenBack ==
    [][(fitOp' = "startfit" /\ fitRaised' = NoError) =>
          LET found == solverCall'.found
          IN /\ Len(paramlist') = Len(paramlist)
             /\ \A i \in DOMAIN paramlist :
                    LET old == paramlist[i]
                        new == paramlist'[i]
                    IN /\ old.code # "IGNORE" =>
                              (new.fitresult = found[1][i] /\ new.sigma = found[3][i])
                       /\ old.code = "IGNORE" =>
                              (new.fitresult = old.fitresult /\ new.sigma = old.sigma)
                       /\ new = [old EXCEPT !.fitresult = new.fitresult,
                                            !.sigma = new.sigma]
             /\ chisq' = found[2]
             /\ state' = "Ready"]_vars

\* a fit has ended on a table with an IGNOREd parameter, which has kept its
\* fitresult, and a parameter that has the solver's value
IgnoredKeptOthersWritten ==
    /\ fitOp = "startfit" /\ fitRaised = NoError /\ state = "Ready"
    /\ \E i \in DOMAIN paramlist : \E j \in DOMAIN paramlist :
           /\ paramlist[i].code = "IGNORE" /\ paramlist[i].fitresult = 0
           /\ paramlist[j].code # "IGNORE" /\ paramlist[j].fitresult = FitValue(j - 1)
                                            /\ paramlist[j].sigma = SigmaValue(j - 1)

\* C10: after a startfit() whose solver failed the state is 'Ready', chisq is
\* None and the last event fired carries that transition
SolverFailureEndsReady ==
    (fitOp = "startfit" /\ fitRaised = "SolverError") =>
        /\ state = "Ready"
        /\ chisq = NoneNum
        /\ Last(emitted) = Payload(NoneNum, "Ready")

(***************************************************************************)
(* Properties of selection and configuration                               *)
(***************************************************************************)
\* C11: a selection of a name that is not in the registry, through
\* settheory(), setbackground() or configure(fittheory=..., fitbkg=...),
\* raises an error and leaves fitconfig['fittheory'], fitconfig['fitbkg'],
\* theoryfun, bkgfun and modelderiv as they were.
UnknownSelectionRejected ==
    [][/\ (/\ lastCall'.op = "configure"
           /\ \/ /\ "fittheory" \in DOMAIN lastCall'.kw
                 /\ lastCall'.kw.fittheory \notin DOMAIN theorydict
              \/ /\ "fitbkg" \in DOMAIN lastCall'.kw
                 /\ lastCall'.kw.fitbkg \notin DOMAIN bkgdict)
          => raised' = "KeyError"
       /\ raised' = "KeyError"
          => /\ fitconfig'.fittheory = fitconfig.fittheory
             /\ fitconfig'.fitbkg = fitconfig.fitbkg
             /\ theoryfun' = theoryfun
             /\ bkgfun' = bkgfun
             /\ modelderiv' = modelderiv]_vars

\* C12: after configure(**kw) has returned, every key K of fitconfig holds
\* the value of every keyword that equals K up to letter case.
KeywordsMatchedIgnoringCase ==
    (lastCall.op = "configure" /\ raised = NoError)
        => \A K \in DOMAIN fitconfig : \A k \in DOMAIN lastCall.kw :
               Lower(k) = Lower(K) => fitconfig[K] = lastCall.kw[k]

\* C13: configure(**fitconfig) and configure() leave every entry of
\* fitconfig, the selected names among them, as it was.
ConfigureIdempotent ==
    [][(lastCall'.op = "configure" /\ lastCall'.form \in {"none", "current"})
          => fitconfig' = fitconfig]_vars

(***************************************************************************)
(* Properties of importfun                                                 *)
(***************************************************************************)
\* element i of an optional list of a module, None when the module omits the list
Optional(a, i) == IF a.has THEN a.val[i] ELSE None

\* C20: importfun() of a module whose THEORY lists m names returns, has
\* called INIT once when the module defines it, has registered the i-th name
\* with the i-th FUNCTION and PARAMETERS and with the i-th ESTIMATE, CONFIGURE
\* and DERIVATIVE or None where the module omits them, and has left the
\* entries of other names as they were.
BundleRegistered ==
    lastCall.op = "importfun"
        => LET m == lastCall.module
               theory == m.THEORY.val
               names == {theory[i] : i \in DOMAIN theory}
           IN /\ raised = NoError
              /\ lastCall.init_calls = IF m.INIT.has THEN 1 ELSE 0
              /\ DOMAIN theorydict = (DOMAIN lastCall.before) \cup names
              /\ \A i \in DOMAIN theory :
                     theorydict[theory[i]] =
                         <<m.FUNCTION.val[i], m.PARAMETERS.val[i], Optional(m.ESTIMATE, i),
                           Optional(m.CONFIGURE, i), Optional(m.DERIVATIVE, i)>>
              /\ \A name \in (DOMAIN lastCall.before) \ names :
                     theorydict[name] = lastCall.before[name]

(***************************************************************************)
(* Properties of the data buffers                                          *)
(***************************************************************************)
\* the call of setdata gave x and y, of different lengths
ShapeMismatch ==
    /\ lastCall.op = "setdata"
    /\ lastCall.x # NoneSeq /\ lastCall.y # NoneSeq
    /\ Len(lastCall.x) # Len(lastCall.y)

\* the call of setdata gave no uncertainties, or as many as ordinates
UncertaintiesFit ==
    /\ lastCall.op = "setdata"
    /\ lastCall.y # NoneSeq /\ lastCall.sigmay # NoneSeq => Len(lastCall.sigmay) = Len(lastCall.y)

\* C14: after setdata the three working buffers have equal length, and so
\* have the three original buffers; a call of setdata with x and y of
\* different lengths ends with an error.
BuffersOfEqualLength ==
    UncertaintiesFit
        => /\ Len(xdata) = Len(ydata) /\ Len(ydata) = Len(sigmay)
           /\ Len(xdata0) = Len(ydata0) /\ Len(ydata0) = Len(sigmay0)
           /\ ShapeMismatch => raised # NoError

\* the elements of a finite set of numbers in ascending order
RECURSIVE Ascending(_)
Ascending(S) ==
    IF S = {} THEN <<>>
    ELSE LET least == CHOOSE v \in S : \A w \in S : v <= w
         IN <<least>> \o Ascending(S \ {least})

\* the call of setdata gave inputs of equal length
EqualLengthCall ==
    /\ lastCall.op = "setdata"
    /\ lastCall.y # NoneSeq
    /\ lastCall.x # NoneSeq => Len(lastCall.x) = Len(lastCall.y)
    /\ lastCall.sigmay # NoneSeq => Len(lastCall.sigmay) = Len(lastCall.y)

\* the positions of the original samples that lie in the window of the call
WindowPositions ==
    LET lo == IF lastCall.xmin # NoneNum THEN lastCall.xmin ELSE SeqMin(xdata0)
        hi == IF lastCall.xmax # NoneNum THEN lastCall.xmax ELSE SeqMax(xdata0)
    IN {i \in DOMAIN xdata0 : lo <= xdata0[i] /\ xdata0[i] <= hi}

\* the working view holds exactly the original samples at WindowPositions, in
\* their order, the three buffers aligned, and the originals are the inputs
ViewIsWindow ==
    LET kept == Ascending(WindowPositions)
    IN /\ raised = NoError
       /\ ydata0 = lastCall.y
       /\ xdata0 = IF lastCall.x = NoneSeq THEN [i \in DOMAIN ydata0 |-> i - 1] ELSE lastCall.x
       /\ sigmay0 = IF lastCall.sigmay = NoneSeq THEN [i \in DOMAIN ydata0 |-> 1]
                    ELSE lastCall.sigmay
       /\ xdata = [j \in DOMAIN kept |-> xdata0[kept[j]]]
       /\ ydata = [j \in DOMAIN kept |-> ydata0[kept[j]]]
       /\ sigmay = [j \in DOMAIN kept |-> sigmay0[kept[j]]]

\* the view is a run of consecutive original samples
ViewContiguous == \E a \in 1 .. Len(xdata0) + 1 : \E b \in 0 .. Len(xdata0) : WindowPositions = a .. b

\* a sequence of numbers that never decreases, or never increases
Monotonic(s) ==
    \/ \A i \in 1 .. Len(s) - 1 : s[i] <= s[i + 1]
    \/ \A i \in 1 .. Len(s) - 1 : s[i] >= s[i + 1]

\* C16 as stated: after setdata with inputs of equal length the working view
\* holds exactly the samples with xmin <= x <= xmax, in order and aligned, and
\* is a contiguous subsequence of the originals, for any abscissas.
ViewContiguousForAnyAbscissas == EqualLengthCall => (ViewIsWindow /\ ViewContiguous)

\* C16: after setdata with inputs of equal length the working view holds
\* exactly the samples with xmin <= x <= xmax, in order and aligned; it is a
\* contiguous subsequence of the originals when the abscissas are monotonic.
ViewContiguousForMonotonicAbscissas ==
    EqualLengthCall => (ViewIsWindow /\ (Monotonic(xdata0) => ViewContiguous))

\* setdata has cut a window out of MaxLen samples in monotonic order, and
\* kept some of them
WindowCut ==
    /\ EqualLengthCall
    /\ lastCall.xmin # NoneNum
    /\ Len(xdata0) = MaxLen
    /\ Len(xdata) > 0 /\ Len(xdata) < Len(xdata0)
    /\ Monotonic(xdata0)

\* C15: estimate() on zero-length data, with a registered theory selected,
\* returns in state 'Ready to Fit' with an empty parameter list, and a
\* startfit() on that empty list returns too.
DegenerateDataEstimated ==
    /\ (/\ lastCall.op = "estimate"
        /\ Len(xdata) = 0 /\ Len(ydata) = 0
        /\ fitconfig.fittheory \in DOMAIN theorydict)
       => (fitRaised = NoError /\ state = "Ready to Fit" /\ paramlist = <<>>)
    /\ (lastCall.op = "startfit" /\ Len(xdata) = 0 /\ paramlist = <<>>)
       => fitRaised = NoError

(***************************************************************************)
(* Properties of the MCA regions                                           *)
(***************************************************************************)
\* the intervals [p - 3w, p + 3w] of the peaks of the latest call of
\* mcaregions, clipped to the data range
PeakIntervals ==
    LET lo == SeqMin(xdata)
        hi == SeqMax(xdata)
        delta == 3 * lastCall.fwhm
    IN {<<Max2(lastCall.peaks[i] - delta, lo), Min2(lastCall.peaks[i] + delta, hi)>> :
           i \in DOMAIN lastCall.peaks}

\* the number of connected components of the union of a set of closed
\* intervals: the left ends that no interval starting before them reaches
Components(intervals) ==
    Cardinality({I[1] : I \in {J \in intervals :
                    ~\E K \in intervals : K[1] < J[1] /\ J[1] <= K[2]}})

\* C19: mcaregions(P, w) returns as many regions as the union of the clipped
\* intervals [p - 3w, p + 3w] has connected components; the regions are
\* pairwise disjoint and in ascending order, and every peak lies in one.
RegionsAreComponents ==
    (lastCall.op = "mcaregions" /\ Len(xdata) > 0)
        => LET regions == lastCall.regions
           IN /\ raised = NoError
              /\ Len(regions) = Components(PeakIntervals)
              /\ \A i \in DOMAIN regions : regions[i][1] <= regions[i][2]
              /\ \A i \in 1 .. Len(regions) - 1 : regions[i][2] < regions[i + 1][1]
              /\ \A k \in DOMAIN lastCall.peaks : \E i \in DOMAIN regions :
                     regions[i][1] <= lastCall.peaks[k] /\ lastCall.peaks[k] <= regions[i][2]

(***************************************************************************)
(* Properties of the MCA fit                                               *)
(***************************************************************************)
\* the step just taken is one of the operations that only read the working
\* buffers: estimate(), startfit(), gendata(), mcaresidualssearch(), called
\* by the caller or by the loop of mcafit over a region
ReadsWorkingBuffers(call) ==
    IF call.op = "mcafit" THEN call.step \in {"estimate", "startfit", "residuals"}
    ELSE call.op \in {"estimate", "startfit", "gendata", "mcaresidualssearch"}

\* C17: estimate(), startfit(), gendata(), mcaresidualssearch() and the
\* residual loop of mcafit() leave every element of xdata, ydata and sigmay
\* as it was before the operation
WorkingBuffersKept ==
    [][ReadsWorkingBuffers(lastCall')
           => <<xdata, ydata, sigmay>>' = <<xdata, ydata, sigmay>>]_vars

\* the working abscissas and uncertainties are samples of the data the
\* caller had given before mcafit was called
ViewOfCallersData ==
    \A j \in DOMAIN xdata :
        \E i \in DOMAIN lastCall.before.xdata0 :
            /\ xdata[j] = lastCall.before.xdata0[i]
            /\ j \in DOMAIN sigmay
            /\ i \in DOMAIN lastCall.before.sigmay0
            /\ sigmay[j] = lastCall.before.sigmay0[i]

\* C18: during and after mcafit() called without x, y and sigmay, every
\* region is estimated and fitted with the caller's abscissas and
\* uncertainties, and when the call has returned xdata0, ydata0 and sigmay0
\* are what they were before the call
OriginalsRetainedByMcaFit ==
    IF lastCall.op = "mcafit"
    THEN lastCall.form = "defaults" =>
            /\ lastCall.step \in {"estimate", "startfit"} => ViewOfCallersData
            /\ lastCall.pc = "returned" =>
                   <<xdata0, ydata0, sigmay0>> = <<lastCall.before.xdata0,
                                                   lastCall.before.ydata0,
                                                   lastCall.before.sigmay0>>
    ELSE TRUE

(***************************************************************************)
(* Properties of the estimators of the library                             *)
(***************************************************************************)
\* the latest call of the library returned from estimate_height_position_fwhm
\* (theories 'Gaussians' and 'Lorentz') with the FWHM of the peaks tied
TiedFwhmCall ==
    IF libCall.called
    THEN /\ libCall.theory \in {0, 1}
         /\ libCall.err = NoError
         /\ ~config.NoConstraintsFlag
         /\ config.SameFwhmFlag
         /\ libCall.args.found >= 2
    ELSE FALSE

\* the table Specfit.estimate builds from the block of that call and the
\* one parameter of the background 'Constant'
MergedWithConstant ==
    BuildTable(FinalTheory(<<"Constant">>, At(PARAMETERS, libCall.theory),
                           Len(libCall.params)),
               3, <<BkgValue(0)>>, BkgCons(1, CFREE), libCall.params, libCall.cons,
               <<XMin, XMax>>)

\* C21: with SameFwhmFlag the FWHM of every peak but the largest, L, is
\* FACTOR with c1 = 3*L + 2 and c2 = 1, the FWHM of the largest is not FACTOR,
\* and in the table the driver builds with a background of b = 1 parameter
\* that FWHM is FACTOR with cons1 = b + 3*L + 2
SameFwhmTiedToLargest ==
    TiedFwhmCall =>
        LET L == libCall.args.largest
            peaks == 0 .. (libCall.args.found - 1)
            merged == MergedWithConstant
        IN /\ \A i \in peaks \ {L} : libCall.cons[3 * i + 3] = <<CFACTOR, 3 * L + 2, 1>>
           /\ libCall.cons[3 * L + 3][1] # CFACTOR
           /\ merged.err = NoError
           /\ Len(merged.table) = 1 + 3 * libCall.args.found
           /\ \A i \in peaks \ {L} :
                  /\ merged.table[1 + 3 * i + 3].code = "FACTOR"
                  /\ merged.table[1 + 3 * i + 3].cons1 = 1 + 3 * L + 2
                  /\ merged.table[1 + 3 * i + 3].cons2 = 1

\* the latest call of the library returned from estimator `name` with the
\* FWHM of the peaks tied by the base estimator
TiedFwhmCallOf(name) ==
    IF libCall.called
    THEN /\ At(ESTIMATE, libCall.theory) = name
         /\ libCall.err = NoError
         /\ ~config.NoConstraintsFlag
         /\ config.SameFwhmFlag
         /\ libCall.args.found >= 2
    ELSE FALSE

\* in the block of the latest call, laid out with n parameters per peak, the
\* low-side and the high-side FWHM of every peak but L are FACTOR-linked to
\* the low-side and the high-side FWHM of peak L
SplitFwhmLinked(n) ==
    LET L == libCall.args.largest
    IN \A i \in (0 .. (libCall.args.found - 1)) \ {L} :
           /\ At(libCall.cons, n * i + 2) = <<CFACTOR, n * L + 2, 1>>
           /\ At(libCall.cons, n * i + 3) = <<CFACTOR, n * L + 3, 1>>

\* C22: estimate_splitgauss (4 parameters per peak) and estimate_splitpvoigt
\* (5 per peak) link the low-side FWHM of a tied peak to index n'*L + 2 and
\* its high-side FWHM to index n'*L + 3 of the new layout
SplitClonesFollowLayout ==
    /\ TiedFwhmCallOf("estimate_splitgauss") => SplitFwhmLinked(4)
    /\ TiedFwhmCallOf("estimate_splitpvoigt") => SplitFwhmLinked(5)

\* the latest call of the library returned from estimate_ahypermet
HypermetCall ==
    IF libCall.called
    THEN libCall.theory = HypermetTheory /\ libCall.err = NoError
    ELSE FALSE

\* the parameter at offset j of peak i of the latest call is estimated at 0
\* with code FIXED
HeldAtZero(i, j) ==
    /\ At(libCall.params, 8 * i + j) = 0
    /\ At(libCall.cons, 8 * i + j) = <<CFIXED, 0, 0>>

\* C23: in the block of estimate_ahypermet the parameters of a tail or step
\* term whose bit of HypermetTails is 0 are estimated at 0 with code FIXED,
\* for every peak, and the estimator enables the terms the evaluator
\* ahypermet enables
DisabledTermsHeldAtZero ==
    /\ HypermetCall =>
          \A i \in 0 .. ((Len(libCall.params) \div 8) - 1) :
              /\ AhypermetTerm(1) = 0 => HeldAtZero(i, 3) /\ HeldAtZero(i, 4)
              /\ AhypermetTerm(2) = 0 => HeldAtZero(i, 5) /\ HeldAtZero(i, 6)
              /\ AhypermetTerm(3) = 0 => HeldAtZero(i, 7)
    /\ \A b \in 0 .. 3 : HypermetTerm(b) = AhypermetTerm(b)


(***************************************************************************)
(* Properties of the residual search of mcafit                             *)
(***************************************************************************)
\* a step of the residual loop of mcafit that appends a peak to the table
ResidualPeakAdded ==
    IF lastCall.op = "mcafit" /\ lastCall'.op = "mcafit"
    THEN lastCall'.step = "residuals" /\ lastCall'.refits = lastCall.refits + 1
    ELSE FALSE

\* the indices, in the table plist, of the parameters whose name holds "Fwhm"
FwhmEntries(plist) == {i \in DOMAIN plist : NameHas(plist[i].name, "Fwhm")}

\* the group appended by a step of the residual loop: one entry per name of
\* the template, in the group above the highest group of the table
NewGroupAppended ==
    LET names == At(theorydict[fitconfig.fittheory], 1)
        b == Len(paramlist)
        groups == {paramlist[i].group : i \in DOMAIN paramlist} \cup {0}
        newg == (CHOOSE g \in groups : \A h \in groups : h <= g) + 1
    IN /\ Len(paramlist') = b + Len(names)
       /\ \A i \in DOMAIN names :
             /\ paramlist'[b + i].name = names[i] \o Suffix(newg)
             /\ paramlist'[b + i].group = newg

\* the Position of the appended group is QUOTED within half a fwhm of a
\* sample, fwhm the estimation of the FWHM of the group
NewPositionQuoted ==
    LET names == At(theorydict[fitconfig.fittheory], 1)
        b == Len(paramlist)
    IN \A i \in DOMAIN names : \A w \in DOMAIN names :
          (NameHas(names[i], "Position") /\ NameHas(names[w], "Fwhm")) =>
              \E s \in DOMAIN xdata :
                  /\ paramlist'[b + i].estimation = xdata[s]
                  /\ paramlist'[b + i].code = "QUOTED"
                  /\ paramlist'[b + i].cons1
                        = Halves(2 * xdata[s] - paramlist'[b + w].estimation)
                  /\ paramlist'[b + i].cons2
                        = Halves(2 * xdata[s] + paramlist'[b + w].estimation)

\* the FWHM of the appended group is FACTOR-tied, factor 1, to the parameter
\* at the index `target` of the table
NewFwhmTiedTo(target) ==
    LET names == At(theorydict[fitconfig.fittheory], 1)
        b == Len(paramlist)
    IN \A w \in DOMAIN names :
          NameHas(names[w], "Fwhm") =>
              /\ paramlist'[b + w].code = "FACTOR"
              /\ paramlist'[b + w].cons1 = target - 1
              /\ paramlist'[b + w].cons2 = 1

\* C24: the peak the residual loop of mcafit appends has one entry per name
\* of the template, in a new group above the highest group; its Position is
\* QUOTED in [pos - fwhm/2, pos + fwhm/2] and its FWHM is FACTOR-tied with
\* factor 1 to the first FWHM parameter of the table
NewPeakTiedToFirstFwhm ==
    [][(ResidualPeakAdded /\ FwhmEntries(paramlist) # {}) =>
          /\ NewGroupAppended
          /\ NewPositionQuoted
          /\ NewFwhmTiedTo(CHOOSE i \in FwhmEntries(paramlist) :
                              \A j \in FwhmEntries(paramlist) : i <= j)]_vars


\* mcafit is in the residual loop of a region after this step: its next step
\* is the search of the residuals
InResidualLoop ==
    IF lastCall'.op = "mcafit" THEN lastCall'.pc = "residuals" ELSE FALSE

\* this step is one round of the residual loop that returned from the search
ResidualRound ==
    IF lastCall.op = "mcafit" /\ lastCall'.op = "mcafit"
    THEN lastCall.pc = "residuals" /\ lastCall'.step = "residuals"
         /\ lastCall'.pc # "raised"
    ELSE FALSE

ResolvedCall ==
    CallEstimate(libCall.theory,
                 [libCall.args EXCEPT !.yscaling = IF @ = NoneNum THEN config.Yscaling
                                                    ELSE IF @ = 0 THEN 1 ELSE @])

\* C26: every estimator uses the resolved yscaling only: a call with yscaling
\* 0 or None returns what the call with yscaling 1, or the configured
\* yscaling, returns
ScalingResolvedBeforeUse ==
    (libCall.called /\ libCall.args.yscaling \in {0, NoneNum}) =>
        /\ libCall.err = ResolvedCall.err
        /\ libCall.params = ResolvedCall.params
        /\ libCall.cons = ResolvedCall.cons


(***************************************************************************)
(* Properties of gendata                                                   *)
(***************************************************************************)
\* gendata has returned the values of the model
GenDataReturned == lastCall.op = "gendata" /\ raised = NoError

\* the values handed to one call of the peak evaluator are the parameters of
\* one group, in the order of the template
OneGroupInOrder(call) ==
    LET names == At(theorydict[fitconfig.fittheory], 1)
    IN /\ Len(call) = Len(names)
       /\ \E g \in {paramlist[call[j]].group : j \in DOMAIN call} \ {0} :
             \A j \in DOMAIN call :
                 /\ paramlist[call[j]].group = g
                 /\ paramlist[call[j]].name = names[j] \o Suffix(g)

\* the table holds the parameters of the background, then whole groups of
\* the parameters of the theory
WholeGroups ==
    LET bg_names == At(bkgdict[fitconfig.fitbkg], 1)
        names == At(theorydict[fitconfig.fittheory], 1)
        b == Len(bg_names)
        n == Len(names)
    IN /\ Len(paramlist) >= b
       /\ (Len(paramlist) - b) % n = 0
       /\ \A i \in DOMAIN paramlist :
             IF i <= b
             THEN paramlist[i].group = 0 /\ paramlist[i].name = bg_names[i]
             ELSE LET g == ((i - b - 1) \div n) + 1
                      j == ((i - b - 1) % n) + 1
                  IN paramlist[i].group = g /\ paramlist[i].name = names[j] \o Suffix(g)

\* C27: on a table of whole groups gendata skips the IGNOREd parameters and every value left is read as
\* the parameter it belongs to: the background evaluator receives the
\* background values that are not IGNOREd, every call of the peak evaluator
\* the n values of one group, and no value is left out
IgnoredSkippedInPlace ==
    (GenDataReturned /\ WholeGroups) =>
        LET calls == lastCall.calls
            kept == {i \in DOMAIN paramlist : paramlist[i].code # "IGNORE"}
        IN /\ {calls.bkg[k] : k \in DOMAIN calls.bkg}
                = {i \in kept : paramlist[i].group = 0}
           /\ \A c \in DOMAIN calls.peaks : OneGroupInOrder(calls.peaks[c])
           /\ \A i \in kept :
                 paramlist[i].group # 0 =>
                     \E c \in DOMAIN calls.peaks :
                         \E j \in DOMAIN calls.peaks[c] : calls.peaks[c][j] = i


(***************************************************************************)
(* Properties of the internal background                                   *)
(***************************************************************************)
\* bkg_internal has returned from its memory, for abscissas that exist
BkgFromMemory ==
    IF lastCall.op = "bkg_internal"
    THEN raised = NoError /\ lastCall.hit /\ Len(lastCall.x) > 0
    ELSE FALSE

\* C28: what bkg_internal returns from its memory is what it would compute
\* from the abscissas, the working ydata, the curvature and the iterations
\* as they are, plus the constant pars[2]
MemoryTransparent ==
    BkgFromMemory =>
        lastCall.ret = [bkg |-> BkgInternalFresh(lastCall.pars, lastCall.x),
                        constant |-> lastCall.pars[3]]


(***************************************************************************)
(* Re-registration and selection: a theory and a background are            *)
(* registered again under a name that may be the selected one, with the    *)
(* same or another evaluator, between selections and configure calls       *)
(***************************************************************************)
\* the evaluators the callers register under 'Plain' and under 'Constant'
PlainEvaluators == {"plain_function", "plain_function_2"}
ConstantEvaluators == {"bkg_constant", "user_constant"}

NextSelect ==
    \/ \E f \in PlainEvaluators : addtheory("Plain", f, <<"Height">>, None, None, None)
    \/ \E f \in ConstantEvaluators :
          addbackground("Constant", f, <<"Constant">>, "estimate_builtin_bkg")
    \/ importfun(MinimalModule)
    \/ \E theory \in {"Plain", "Missing"} : settheory(theory)
    \/ \E theory \in SelectedBackgrounds : setbackground(theory)
    \/ \E kw \in {[fittheory |-> "Plain"], [fittheory |-> "Missing"],
                  [fitbkg |-> "Constant"], [fitbkg |-> "Missing"]} :
          configure("keywords", kw)

SpecSelect == Init /\ [][NextSelect]_vars

(***************************************************************************)
(* Properties of the selection after registrations                         *)
(***************************************************************************)
\* the selected theory is None or registered, and theoryfun is its evaluator
TheorySelectionConsistent ==
    \/ fitconfig.fittheory = None
    \/ /\ fitconfig.fittheory \in DOMAIN theorydict
       /\ theoryfun = At(theorydict[fitconfig.fittheory], 0)

\* the selected background is registered, and bkgfun is its evaluator
BkgSelectionConsistent ==
    /\ fitconfig.fitbkg \in DOMAIN bkgdict
    /\ bkgfun = At(bkgdict[fitconfig.fitbkg], 0)

\* C29: after every call of addtheory, addbackground, importfun, settheory,
\* setbackground and configure, failed ones included, fitconfig['fittheory']
\* is None or a key of theorydict whose registered evaluator is theoryfun,
\* and fitconfig['fitbkg'] is a key of bkgdict whose registered evaluator is
\* bkgfun.
SelectionConsistent ==
    [][TheorySelectionConsistent' /\ BkgSelectionConsistent']_vars


(***************************************************************************)
(* The search width of mcafit: the caller sets AutoFwhm and calls mcafit   *)
(* with and without fwhm_points                                            *)
(***************************************************************************)
\* the fwhm_points the callers give mcafit
FwhmPointsGiven == {NoneNum, 3}

NextWidth ==
    \/ lastCall.op # "mcafit" /\ \E a \in {0, 1} : configure("keywords", [AutoFwhm |-> a])
    \/ \E form \in {"defaults", "data"} :
          \E fwhm_points \in FwhmPointsGiven : mcafit_call(form, fwhm_points)
    \/ mcafit_estimate
    \/ mcafit_startfit
    \/ mcafit_residuals
    \/ mcafit_result

SpecWidth == InitMca /\ [][NextWidth]_vars

(***************************************************************************)
(* Properties of the search width of mcafit                                *)
(***************************************************************************)
\* a call of mcafit has run up to its first estimate() in this step
McaCalled == IF lastCall'.op = "mcafit" THEN lastCall'.step = "call" ELSE FALSE

\* the fwhm mcafit is to search with, by its argument and the configuration
\* it is called on
ExpectedFwhm ==
    IF lastCall'.fwhm_points # NoneNum THEN lastCall'.fwhm_points
    ELSE IF Flag(fitconfig.AutoFwhm) THEN GuessedFwhm
    ELSE fitconfig.FwhmPoints

\* C30: every call of mcafit reaches the peak search with the fwhm its
\* arguments and configuration determine: fwhm_points when it is given,
\* else the guessed fwhm when AutoFwhm is set, else the configured
\* FwhmPoints; and it has stored that fwhm as FwhmPoints in fitconfig.
SearchFwhmDetermined ==
    [][McaCalled => /\ lastCall'.fwhm = ExpectedFwhm
                    /\ fitconfig'.FwhmPoints = ExpectedFwhm]_vars

====
